---- MODULE Spec2Model ----
(***************************************************************************)
(* Stock manager: the Storage module (localStorage backend and GitHub Gist *)
(* backend with its 30 s read cache) and the App controller's lookup and   *)
(* sale flows, as a state machine of asynchronous calls.                   *)
(***************************************************************************)
EXTENDS Integers, Naturals, Sequences, FiniteSets, TLC

(***************************************************************************)
(* Bounds of the model.                                                    *)
(***************************************************************************)
\* number of Storage / App calls issued in one behaviour
MaxCalls == 2
\* largest quantity typed into a form or passed to removeStock
MaxQty == 2
\* camera streams asked for or open in one behaviour of the scanner
MaxStreams == 2

(***************************************************************************)
(* JavaScript values.  A number field holds a number, NaN or (after a JSON *)
(* round trip) null; a barcode holds a string or null.  Strings are        *)
(* sequences of characters.                                                *)
(***************************************************************************)
Num(n) == [t |-> "num", v |-> n]
NaN == [t |-> "nan", v |-> 0]
Null == [t |-> "null", v |-> 0]
IsNum(x) == x.t = "num"

Str(s) == [t |-> "str", s |-> s]
NullStr == [t |-> "null", s |-> <<>>]
UndefStr == [t |-> "undef", s |-> <<>>]

\* Raw inputs: what a form field or a caller hands over.  "int" is the
\* integer v (as a number or a numeric string), "frac" is v + 1/2 (2.5 is
\* v = 2, -1.5 is v = -2), "text" is a string without a leading number (""
\* included), "undef" is a property that is absent.
RawInt(n) == [t |-> "int", v |-> n]
RawFrac(n) == [t |-> "frac", v |-> n]
RawText == [t |-> "text", v |-> 0]
RawUndef == [t |-> "undef", v |-> 0]

\* parseInt(x): the integer part, truncated toward zero, or NaN.
ParseInt(x) ==
    CASE x.t = "int" -> Num(x.v)
      [] x.t = "frac" -> Num(IF x.v >= 0 THEN x.v ELSE x.v + 1)
      [] OTHER -> NaN

\* parseFloat(x).  Prices are held in halves of the currency unit, so that
\* 2.5 is the number 5.
ParseFloat(x) ==
    CASE x.t = "int" -> Num(2 * x.v)
      [] x.t = "frac" -> Num(2 * x.v + 1)
      [] OTHER -> NaN

\* `n || 0` on a number: NaN and 0 are falsy.
OrZero(n) == IF IsNum(n) THEN n.v ELSE 0

\* ToNumber for the comparison and subtraction operators: null is 0.
ToNumber(x) == IF x.t = "null" THEN Num(0) ELSE x

\* a < b on number-valued fields: false when either side is NaN.
JsLess(a, b) ==
    /\ IsNum(ToNumber(a))
    /\ IsNum(ToNumber(b))
    /\ ToNumber(a).v < ToNumber(b).v

\* a - b
JsMinus(a, b) ==
    IF IsNum(ToNumber(a)) /\ IsNum(ToNumber(b))
    THEN Num(ToNumber(a).v - ToNumber(b).v)
    ELSE NaN

\* a + b on number-valued fields
JsPlus(a, b) ==
    IF IsNum(ToNumber(a)) /\ IsNum(ToNumber(b))
    THEN Num(ToNumber(a).v + ToNumber(b).v)
    ELSE NaN

\* a * b on number-valued fields
JsTimes(a, b) ==
    IF IsNum(ToNumber(a)) /\ IsNum(ToNumber(b))
    THEN Num(ToNumber(a).v * ToNumber(b).v)
    ELSE NaN

\* JSON.stringify writes NaN as null; JSON.parse reads null back.
JsonNumber(x) == IF x.t = "nan" THEN Null ELSE x

(***************************************************************************)
(* Strings.                                                                *)
(***************************************************************************)
Chars == {"a", "A", "b", "1", " "}

Lower == [c \in Chars |-> IF c = "A" THEN "a" ELSE c]

toLowerCase(s) == [i \in DOMAIN s |-> Lower[s[i]]]

RECURSIVE TrimLeft(_)
TrimLeft(s) == IF s # <<>> /\ Head(s) = " " THEN TrimLeft(Tail(s)) ELSE s

RECURSIVE TrimRight(_)
TrimRight(s) ==
    IF s # <<>> /\ s[Len(s)] = " " THEN TrimRight(SubSeq(s, 1, Len(s) - 1)) ELSE s

trim(s) == TrimRight(TrimLeft(s))

\* s.includes(sub)
includes(s, sub) ==
    \E i \in 0..(Len(s) - Len(sub)) : SubSeq(s, i + 1, i + Len(sub)) = sub

\* truthiness of a string-valued operand: null, undefined and "" are falsy
Truthy(x) == x.t = "str" /\ x.s # <<>>

\* a || b on string-valued operands
OrElse(a, b) == IF Truthy(a) THEN a ELSE b

(***************************************************************************)
(* Inventory items and the pure part of the Storage operations (the same   *)
(* in both backends).                                                      *)
(***************************************************************************)
\* An id is 'item_' + Date.now() + '_' + random suffix.
MkId(time, rand) == <<time, rand>>
MissingId == <<0, 0>>
NoId == <<0 - 1, 0>>

NoItem ==
    [id |-> NoId, barcode |-> NullStr, stockNumber |-> NullStr,
     supplier |-> NullStr, description |-> NullStr, costPrice |-> Null,
     sellingPrice |-> Null, quantity |-> Null, createdAt |-> 0, updatedAt |-> 0]

\* items.findIndex(item => item.id === id); 0 stands for -1
FindIndex(items, id) ==
    IF \E i \in 1..Len(items) : items[i].id = id
    THEN CHOOSE i \in 1..Len(items) :
            /\ items[i].id = id
            /\ \A j \in 1..(i - 1) : items[j].id # id
    ELSE 0

\* items.find(item => item.id === id) || null
FindById(items, id) ==
    IF FindIndex(items, id) = 0 THEN NoItem ELSE items[FindIndex(items, id)]

\* a lookup that takes the first item whose barcode contains the code
FindByBarcodeContaining(items, barcode) ==
    IF \E i \in 1..Len(items) :
            Truthy(items[i].barcode) /\ includes(items[i].barcode.s, barcode.s)
    THEN items[CHOOSE i \in 1..Len(items) :
                  /\ Truthy(items[i].barcode) /\ includes(items[i].barcode.s, barcode.s)
                  /\ \A j \in 1..(i - 1) :
                        ~(Truthy(items[j].barcode)
                            /\ includes(items[j].barcode.s, barcode.s))]
    ELSE NoItem

\* items.find(item => item.barcode === barcode) || null
FindByBarcode(items, barcode) ==
    IF \E i \in 1..Len(items) : items[i].barcode = barcode
    THEN items[CHOOSE i \in 1..Len(items) :
                  /\ items[i].barcode = barcode
                  /\ \A j \in 1..(i - 1) : items[j].barcode # barcode]
    ELSE NoItem

\* the filter predicate of searchItems
SearchMatchesCaseSensitive(item, searchTerm) ==
    \/ includes(item.description.s, searchTerm)
    \/ includes(item.stockNumber.s, searchTerm)
    \/ includes(item.supplier.s, searchTerm)
    \/ (Truthy(item.barcode) /\ includes(item.barcode.s, searchTerm))

SearchMatches(item, searchTerm) ==
    \/ includes(toLowerCase(item.description.s), searchTerm)
    \/ includes(toLowerCase(item.stockNumber.s), searchTerm)
    \/ includes(toLowerCase(item.supplier.s), searchTerm)
    \/ (Truthy(item.barcode) /\ includes(toLowerCase(item.barcode.s), searchTerm))

\* items.filter(pred), keeping the order
RECURSIVE FilterSeq(_, _)
FilterSeq(items, keep) ==
    IF items = <<>> THEN <<>>
    ELSE IF Head(items) \in keep
         THEN <<Head(items)>> \o FilterSeq(Tail(items), keep)
         ELSE FilterSeq(Tail(items), keep)

\* searchItems, after the read
SearchAllWhenBlank(items, query) ==
    IF ~Truthy(query) \/ trim(query.s) = <<>>
    THEN items
    ELSE FilterSeq(items,
            {it \in {items[i] : i \in 1..Len(items)} :
                SearchMatches(it, trim(toLowerCase(query.s)))})

Search(items, query) ==
    IF ~Truthy(query) \/ trim(query.s) = <<>>
    THEN <<>>
    ELSE FilterSeq(items,
            {it \in {items[i] : i \in 1..Len(items)} :
                SearchMatches(it, trim(toLowerCase(query.s)))})

\* What a mutating operation does with the items it read: the collection
\* to save (write = TRUE) or nothing to save, and the value it returns.
Outcome(write, items, ret) == [write |-> write, items |-> items, ret |-> ret]

\* A JSON text: of an array of items ("array"), of an object that is no
\* array ("object"), or no JSON at all ("garbage")
Text(kind, items) == [kind |-> kind, items |-> items]
NoText == Text("none", <<>>)

NoStats ==
    [totalItems |-> 0, totalStock |-> Num(0), totalValue |-> Num(0),
     lowStockItems |-> 0, outOfStockItems |-> 0]

RetNone ==
    [kind |-> "none", success |-> FALSE, error |-> "", available |-> Null,
     item |-> NoItem, removed |-> 0, list |-> <<>>, text |-> NoText,
     count |-> 0, stats |-> NoStats]
RetItem(item) == [RetNone EXCEPT !.kind = "item", !.item = item]
RetNull == [RetNone EXCEPT !.kind = "null"]
RetBool(b) == [RetNone EXCEPT !.kind = "bool", !.success = b]
RetList(items) == [RetNone EXCEPT !.kind = "list", !.list = items]
RetObject == [RetNone EXCEPT !.kind = "object"]
RetText(text) == [RetNone EXCEPT !.kind = "text", !.text = text]
RetCount(n) == [RetNone EXCEPT !.kind = "count", !.count = n]
RetVoid == [RetNone EXCEPT !.kind = "void"]
RetError(error) == [RetNone EXCEPT !.error = error]
RetStats(stats) == [RetNone EXCEPT !.kind = "stats", !.stats = stats]
RetFail(error, available) ==
    [RetNone EXCEPT !.kind = "result", !.error = error, !.available = available]
RetSuccess(item, removed) ==
    [RetNone EXCEPT !.kind = "result", !.success = TRUE, !.item = item,
                    !.removed = removed]

\* addItem, after the read
NewItem(itemData, id, time) ==
    [id |-> id,
     barcode |-> OrElse(itemData.barcode, NullStr),
     stockNumber |-> itemData.stockNumber,
     supplier |-> itemData.supplier,
     description |-> itemData.description,
     costPrice |-> Num(OrZero(ParseFloat(itemData.costPrice))),
     sellingPrice |-> Num(OrZero(ParseFloat(itemData.sellingPrice))),
     quantity |-> Num(OrZero(ParseInt(itemData.quantity))),
     createdAt |-> time,
     updatedAt |-> time]

addItemStepUncoerced(items, itemData, id, time) ==
    LET newItem == [NewItem(itemData, id, time) EXCEPT
                        !.sellingPrice = ParseFloat(itemData.sellingPrice)]
    IN  Outcome(TRUE, Append(items, newItem), RetItem(newItem))

addItemStep(items, itemData, id, time) ==
    Outcome(TRUE, Append(items, NewItem(itemData, id, time)),
            RetItem(NewItem(itemData, id, time)))

\* updateItem, after the read
OverlaySpreadingPatch(old, itemData, time) ==
    [old EXCEPT
        !.barcode = OrElse(itemData.barcode, old.barcode),
        !.stockNumber = OrElse(itemData.stockNumber, old.stockNumber),
        !.supplier = OrElse(itemData.supplier, old.supplier),
        !.description = OrElse(itemData.description, old.description),
        !.costPrice = IF itemData.costPrice.t # "undef"
                      THEN ParseFloat(itemData.costPrice) ELSE old.costPrice,
        !.sellingPrice = IF itemData.sellingPrice.t # "undef"
                         THEN ParseFloat(itemData.sellingPrice) ELSE old.sellingPrice,
        !.quantity = IF itemData.quantity.t # "undef"
                     THEN ParseInt(itemData.quantity) ELSE old.quantity,
        !.createdAt = IF "createdAt" \in DOMAIN itemData
                      THEN itemData.createdAt ELSE old.createdAt,
        !.updatedAt = time]

OverlayOrPrior(old, itemData, time) ==
    [old EXCEPT
        !.barcode = OrElse(itemData.barcode, old.barcode),
        !.stockNumber = OrElse(itemData.stockNumber, old.stockNumber),
        !.supplier = OrElse(itemData.supplier, old.supplier),
        !.description = OrElse(itemData.description, old.description),
        !.costPrice = IF OrZero(ParseFloat(itemData.costPrice)) # 0
                      THEN ParseFloat(itemData.costPrice) ELSE old.costPrice,
        !.sellingPrice = IF OrZero(ParseFloat(itemData.sellingPrice)) # 0
                         THEN ParseFloat(itemData.sellingPrice) ELSE old.sellingPrice,
        !.quantity = IF OrZero(ParseInt(itemData.quantity)) # 0
                     THEN ParseInt(itemData.quantity) ELSE old.quantity,
        !.updatedAt = time]

Overlay(old, itemData, time) ==
    [old EXCEPT
        !.barcode = OrElse(itemData.barcode, old.barcode),
        !.stockNumber = OrElse(itemData.stockNumber, old.stockNumber),
        !.supplier = OrElse(itemData.supplier, old.supplier),
        !.description = OrElse(itemData.description, old.description),
        !.costPrice = IF itemData.costPrice.t # "undef"
                      THEN ParseFloat(itemData.costPrice) ELSE old.costPrice,
        !.sellingPrice = IF itemData.sellingPrice.t # "undef"
                         THEN ParseFloat(itemData.sellingPrice) ELSE old.sellingPrice,
        !.quantity = IF itemData.quantity.t # "undef"
                     THEN ParseInt(itemData.quantity) ELSE old.quantity,
        !.updatedAt = time]

updateItemOrInsert(items, itemData, time) ==
    LET index == FindIndex(items, itemData.id) IN
    IF index = 0
    THEN Outcome(TRUE, Append(items, NewItem(itemData, itemData.id, time)),
                 RetItem(NewItem(itemData, itemData.id, time)))
    ELSE Outcome(TRUE,
                 [items EXCEPT ![index] = Overlay(items[index], itemData, time)],
                 RetItem(Overlay(items[index], itemData, time)))

updateItemStep(items, itemData, time) ==
    LET index == FindIndex(items, itemData.id) IN
    IF index = 0
    THEN Outcome(FALSE, items, RetNull)
    ELSE Outcome(TRUE,
                 [items EXCEPT ![index] = Overlay(items[index], itemData, time)],
                 RetItem(Overlay(items[index], itemData, time)))

\* removeStock with the checks in another order: the quantity first.
removeStockQuantityFirst(items, id, quantity, time) ==
    LET index == FindIndex(items, id)
        removeQty == OrZero(ParseInt(quantity))
    IN  IF removeQty <= 0
        THEN Outcome(FALSE, items, RetFail("Invalid quantity", Null))
        ELSE IF index = 0
        THEN Outcome(FALSE, items, RetFail("Item not found", Null))
        ELSE IF JsLess(items[index].quantity, Num(removeQty))
        THEN Outcome(FALSE, items,
                     RetFail("Not enough stock", items[index].quantity))
        ELSE LET updated == [items[index] EXCEPT
                                !.quantity = JsMinus(items[index].quantity, Num(removeQty)),
                                !.updatedAt = time]
             IN  Outcome(TRUE, [items EXCEPT ![index] = updated],
                         RetSuccess(updated, removeQty))

\* removeStock taking one unit whatever the quantity asked.
removeStockByOne(items, id, quantity, time) ==
    LET index == FindIndex(items, id)
        removeQty == OrZero(ParseInt(quantity))
    IN  IF index = 0
        THEN Outcome(FALSE, items, RetFail("Item not found", Null))
        ELSE IF removeQty <= 0
        THEN Outcome(FALSE, items, RetFail("Invalid quantity", Null))
        ELSE IF JsLess(items[index].quantity, Num(removeQty))
        THEN Outcome(FALSE, items,
                     RetFail("Not enough stock", items[index].quantity))
        ELSE LET updated == [items[index] EXCEPT
                                !.quantity = JsMinus(items[index].quantity, Num(1)),
                                !.updatedAt = time]
             IN  Outcome(TRUE, [items EXCEPT ![index] = updated],
                         RetSuccess(updated, removeQty))

\* removeStock, after the read
removeStockTouchingAll(items, id, quantity, time) ==
    LET index == FindIndex(items, id)
        removeQty == OrZero(ParseInt(quantity))
    IN  IF index = 0
        THEN Outcome(FALSE, items, RetFail("Item not found", Null))
        ELSE IF removeQty <= 0
        THEN Outcome(FALSE, items, RetFail("Invalid quantity", Null))
        ELSE IF JsLess(items[index].quantity, Num(removeQty))
        THEN Outcome(FALSE, items,
                     RetFail("Not enough stock", items[index].quantity))
        ELSE LET updated == [items[index] EXCEPT
                                !.quantity = JsMinus(items[index].quantity, Num(removeQty)),
                                !.updatedAt = time]
             IN  Outcome(TRUE,
                         [j \in 1..Len(items) |->
                            IF j = index THEN updated
                            ELSE [items[j] EXCEPT !.updatedAt = time]],
                         RetSuccess(updated, removeQty))

removeStockStep(items, id, quantity, time) ==
    LET index == FindIndex(items, id)
        removeQty == OrZero(ParseInt(quantity))
    IN  IF index = 0
        THEN Outcome(FALSE, items, RetFail("Item not found", Null))
        ELSE IF removeQty <= 0
        THEN Outcome(FALSE, items, RetFail("Invalid quantity", Null))
        ELSE IF JsLess(items[index].quantity, Num(removeQty))
        THEN Outcome(FALSE, items,
                     RetFail("Not enough stock", items[index].quantity))
        ELSE LET updated == [items[index] EXCEPT
                                !.quantity = JsMinus(items[index].quantity, Num(removeQty)),
                                !.updatedAt = time]
             IN  Outcome(TRUE, [items EXCEPT ![index] = updated],
                         RetSuccess(updated, removeQty))

\* deleteItem, after the read
deleteItemAlwaysTrue(items, id) ==
    LET filteredItems ==
            FilterSeq(items, {it \in {items[i] : i \in 1..Len(items)} : it.id # id})
    IN  IF Len(filteredItems) = Len(items)
        THEN Outcome(FALSE, items, RetBool(TRUE))
        ELSE Outcome(TRUE, filteredItems, RetBool(TRUE))

deleteItemStep(items, id) ==
    LET filteredItems ==
            FilterSeq(items, {it \in {items[i] : i \in 1..Len(items)} : it.id # id})
    IN  IF Len(filteredItems) = Len(items)
        THEN Outcome(FALSE, items, RetBool(FALSE))
        ELSE Outcome(TRUE, filteredItems, RetBool(TRUE))

\* JSON.parse(JSON.stringify(items)): what a later read of the written
\* content returns.
JsonItem(it) ==
    [it EXCEPT !.costPrice = JsonNumber(it.costPrice),
               !.sellingPrice = JsonNumber(it.sellingPrice),
               !.quantity = JsonNumber(it.quantity)]

Json(items) == [i \in DOMAIN items |-> JsonItem(items[i])]

(***************************************************************************)
(* State.                                                                  *)
(***************************************************************************)
VARIABLES
    backend,         \* "local" (localStorage) or "gist" (GitHub Gist)
    store,           \* the persisted collection, as a read decodes it
    content,         \* what the stored text is: see ContentKinds
    itemsCache,      \* gist backend: the cached items, or null
    cacheTimestamp,  \* gist backend: Date.now() of the cache; 0 is null
    now,             \* Date.now()
    calls,           \* the calls issued, by slot
    issued,          \* how many calls were issued
    scanner,          \* the Scanner module: see IdleScanner
    session          \* gist backend: what sessionStorage holds, see SignedIn

vars ==
    <<backend, store, content, itemsCache, cacheTimestamp, now, calls, issued,
      scanner, session>>

\* sessionStorage of the gist backend: the token (none, or one that GitHub
\* accepts or does not accept) and the id of the gist.  passed: the tokens
\* that GET /user has accepted.  login: the calls of authenticate, each
\* with its position (pc), its arguments, the token its request in flight
\* was sent with, and its result.
Tokens == {"good", "bad"}
NoLogin ==
    [pc |-> "idle", token |-> "none", existingGistId |-> "none",
     sent |-> "none", settled |-> "pending", gistId |-> "none"]
SignedOut ==
    [token |-> "none", gistId |-> "none", passed |-> {},
     login |-> [l \in 1..MaxCalls |-> NoLogin]]
SignedIn == [SignedOut EXCEPT !.token = "good", !.gistId = "g1", !.passed = {"good"}]
isAuthenticated == session.token # "none" /\ session.gistId # "none"

\* The four Scanner modules of the repository.  All keep the callback given
\* to start in onDetectCallback and a flag that the camera runs (isRunning,
\* isCameraActive).  "html5-stream" and "zxing-stream" decode every frame
\* and hand each text to handleDetection; "html5-snapshot" and
\* "zxing-snapshot" decode one frame when capture is called.
ScannerVariants ==
    {"html5-stream", "html5-snapshot", "zxing-snapshot", "zxing-stream"}

Streaming == {"html5-stream", "zxing-stream"}

\* requested: the requests for the camera that have not been answered;
\* newest: the request of the last start is among them.  streams: the
\* camera streams that are open; held: the module still refers to one of
\* them (videoStream, or the stream of the current reader).  stopping
\* (html5-stream): html5QrCode.stop() has not resolved.  capture: a snapshot
\* is being decoded.  onDetectCallback: the callback is set (it is always
\* App.handleBarcodeDetected).  decoded, active and delivered record the
\* texts that were decoded, whether the camera ran at that moment, and the
\* texts that were passed to the callback; invoked counts the calls of the
\* callback since start last set it.  view is the view that is shown.
IdleScanner(variant) ==
    [variant |-> variant, view |-> "scan-view",
     isRunning |-> FALSE, onDetectCallback |-> FALSE,
     requested |-> 0, newest |-> FALSE, streams |-> 0, held |-> FALSE,
     stopping |-> FALSE, capture |-> FALSE,
     lastDetectedCode |-> [t |-> "null", s |-> <<>>], lastDetectionTime |-> 0,
     decoded |-> <<>>, active |-> <<>>, delivered |-> <<>>, invoked |-> 0]

NoScanner == IdleScanner("none")

\* The stored text (the localStorage entry, the gist file) is the JSON of an
\* array of items ("array": store holds them), or there is none or an empty
\* one ("missing"), or it is no JSON ("corrupt"), or it is the JSON of an
\* object that is no array ("object"); store is empty in the last three.
ContentKinds == {"array", "missing", "corrupt", "object"}

CACHE_DURATION == 30000

Slots == 1..MaxCalls

\* itemsCache: null, or the items, or the object a GET returned that is no
\* array
NullCache == [null |-> TRUE, object |-> FALSE, items |-> <<>>]
Cache(items) == [null |-> FALSE, object |-> FALSE, items |-> items]
ObjectCache == [null |-> FALSE, object |-> TRUE, items |-> <<>>]

NoData ==
    [id |-> NoId, barcode |-> UndefStr, stockNumber |-> UndefStr,
     supplier |-> UndefStr, description |-> UndefStr, costPrice |-> RawUndef,
     sellingPrice |-> RawUndef, quantity |-> RawUndef]

NoOutcome == Outcome(FALSE, <<>>, RetNone)

NoResolution == [kind |-> "none", item |-> NoItem, items |-> <<>>, prefill |-> NullStr]

\* A call: the App handler it belongs to (app), the Storage operation
\* running (op), its position (pc), its arguments (arg; form is the text of
\* the sale form), the items its getAllItems returned (items) and where
\* they came from (src; while the GET is in flight, items is the content the
\* reply carries), whether the request in flight succeeded (ok), what it is
\* saving (out) and whether that reached the store (wrote), how its promise
\* settled, and for a lookup the items the barcode lookup saw (looked) and
\* the branch taken (resolution).  body is the kind of content a GET found,
\* notArray says that getAllItems returned an object that is no array, and
\* payload is the text handed to importData.
IdleCall ==
    [app |-> "", op |-> "", pc |-> "idle", arg |-> NoData, form |-> RawUndef,
     forceRefresh |-> FALSE, items |-> <<>>, src |-> "none", ok |-> FALSE,
     out |-> NoOutcome, wrote |-> FALSE, settled |-> "pending", ret |-> RetNone,
     toast |-> "", resolution |-> NoResolution, looked |-> <<>>,
     overlapped |-> FALSE, body |-> "array", notArray |-> FALSE,
     payload |-> NoText]

MutatingOps == {"addItem", "updateItem", "removeStock", "deleteItem"}
\* importData and clearAll save without reading first
WritingOps == MutatingOps \cup {"importData", "clearAll"}
ReadOps ==
    {"getAllItems", "getItemById", "getItemByBarcode", "searchItems", "exportData",
     "getStats"}

\* Seed records: items as addItem stored them before the behaviour starts
\* (and, for a quantity that is no number, as updateItem overwrote them).
SeedData(rand, quantity) ==
    [id |-> NoId,
     barcode |-> CASE rand = 1 -> Str(<<"1">>)
                   [] rand = 2 -> Str(<<"A", "1">>)
                   [] OTHER -> Str(<<>>),
     stockNumber |-> Str(<<"b">>),
     supplier |-> Str(<<"b">>),
     description |-> IF rand = 1 THEN Str(<<"A", "b">>) ELSE Str(<<"b">>),
     costPrice |-> RawInt(1), sellingPrice |-> RawFrac(1),
     quantity |-> quantity]

Seed(rand, quantity) ==
    IF quantity.t = "text"
    THEN JsonItem(Overlay(NewItem(SeedData(rand, RawInt(1)), MkId(0, rand), 0),
                          [NoData EXCEPT !.quantity = quantity], 0))
    ELSE NewItem(SeedData(rand, quantity), MkId(0, rand), 0)

InitialStores == {<<>>, <<Seed(1, RawInt(MaxQty))>>}

\* The page has just loaded: nothing is cached, no call is in flight.
Loaded(stores) ==
    /\ backend \in {"local", "gist"}
    /\ store \in stores
    /\ content = "array"
    /\ itemsCache = NullCache
    /\ cacheTimestamp = 0
    /\ now = 1
    /\ calls = [s \in Slots |-> IdleCall]
    /\ issued = 0
    /\ session = SignedIn
    /\ scanner = NoScanner

Init == Loaded(InitialStores)

(***************************************************************************)
(* getAllItems and saveAllItems.                                           *)
(***************************************************************************)
\* gist getAllItems: the test that lets a read return the cache
CacheValid ==
    /\ ~itemsCache.null
    /\ cacheTimestamp # 0
    /\ (now - cacheTimestamp) < CACHE_DURATION

\* processSale's toast for a settled removeStock
SaleToast(settled, ret) ==
    IF settled = "rejected" THEN "Failed to process sale"
    ELSE IF ret.success THEN "Removed" ELSE ret.error

\* The call's promise settles.
Settle(c, settled, ret) ==
    [c EXCEPT !.pc = "done", !.settled = settled, !.ret = ret,
              !.toast = IF c.app = "processSale" THEN SaleToast(settled, ret)
                        ELSE c.toast]

\* What handleBarcodeDetected shows
Resolution(kind, item, items, prefill) ==
    [kind |-> kind, item |-> item, items |-> items, prefill |-> prefill]

\* getAllItems throws: the operation's promise rejects; the lookup's
\* catch shows 'Error looking up item'.
RejectRead(c) ==
    [Settle(c, "rejected", RetNone)
        EXCEPT !.resolution = IF c.app = "handleBarcodeDetected"
                              THEN Resolution("Error", NoItem, <<>>, NullStr)
                              ELSE c.resolution]

\* getAllItems with a cache that never expires.
BeginGetAllNoExpiry(c, forceRefresh, cache, timestamp) ==
    IF backend = "local"
    THEN [c EXCEPT !.pc = "then", !.items = store, !.src = "store",
                   !.notArray = (content = "object"),
                   !.forceRefresh = forceRefresh]
    ELSE IF ~forceRefresh /\ ~cache.null /\ timestamp # 0
    THEN IF cache.object
         THEN RejectRead([c EXCEPT !.forceRefresh = forceRefresh])
         ELSE [c EXCEPT !.pc = "then", !.items = cache.items, !.src = "cache",
                        !.forceRefresh = forceRefresh]
    ELSE [c EXCEPT !.pc = "fetch", !.forceRefresh = forceRefresh]

\* The synchronous start of getAllItems, given the cache as it is then.
\* local: the executor reads localStorage at once and the callback is
\* queued.  gist: a valid cache answers unless forceRefresh; otherwise the
\* GET is sent.
BeginGetAll(c, forceRefresh, cache, timestamp) ==
    IF backend = "local"
    THEN [c EXCEPT !.pc = "then", !.items = store, !.src = "store",
                   !.notArray = (content = "object"),
                   !.forceRefresh = forceRefresh]
    ELSE IF /\ ~forceRefresh
            /\ ~cache.null /\ timestamp # 0
            /\ (now - timestamp) < CACHE_DURATION
    THEN IF cache.object
         THEN RejectRead([c EXCEPT !.forceRefresh = forceRefresh])
         ELSE [c EXCEPT !.pc = "then", !.items = cache.items, !.src = "cache",
                        !.forceRefresh = forceRefresh]
    ELSE [c EXCEPT !.pc = "fetch", !.forceRefresh = forceRefresh]

\* Does the operation ask getAllItems for a forced refresh?
Forces(op) == backend = "gist" /\ op \in MutatingOps

\* Callbacks queued as microtasks run before the next network continuation.
MicrotasksDrained == \A s \in Slots : calls[s].pc # "then"

\* An operation that throws its refusals instead of returning them.
ReturnThrowingRefusals(c, ret) ==
    IF ret.kind = "result" /\ ~ret.success
    THEN Settle(c, "rejected", RetNone)
    ELSE Settle(c, "resolved", ret)

\* The operation returns ret: its promise resolves with it.
Return(c, ret) == Settle(c, "resolved", ret)

\* A conditional write: refused when the content changed since the read.
SavedContentIfUnchanged(c, current) ==
    IF Json(c.items) = current THEN Json(c.out.items) ELSE current

\* saveAllItems: the whole content is replaced by the serialized items
\* (localStorage.setItem, or the PATCH of the gist file).
SavedContent(c, current) == Json(c.out.items)

\* What a read operation returns from the items it got.
\* items.reduce((sum, item) => sum + item.quantity, 0)
RECURSIVE TotalStock(_)
TotalStock(items) ==
    IF items = <<>> THEN Num(0)
    ELSE JsPlus(TotalStock(SubSeq(items, 1, Len(items) - 1)),
                items[Len(items)].quantity)

\* items.reduce((sum, item) => sum + (item.costPrice * item.quantity), 0)
RECURSIVE TotalValue(_)
TotalValue(items) ==
    IF items = <<>> THEN Num(0)
    ELSE JsPlus(TotalValue(SubSeq(items, 1, Len(items) - 1)),
                JsTimes(items[Len(items)].costPrice, items[Len(items)].quantity))

\* item.quantity > 0 && item.quantity <= 5
IsLowStock(item) ==
    JsLess(Num(0), item.quantity) /\ ~JsLess(Num(5), item.quantity)

\* item.quantity === 0
IsOutOfStock(item) == item.quantity = Num(0)

\* items.filter(...).length for the two counts of getStats
RECURSIVE LowStockItems(_)
LowStockItems(items) ==
    IF items = <<>> THEN 0
    ELSE LowStockItems(Tail(items)) + (IF IsLowStock(Head(items)) THEN 1 ELSE 0)

RECURSIVE OutOfStockItems(_)
OutOfStockItems(items) ==
    IF items = <<>> THEN 0
    ELSE OutOfStockItems(Tail(items)) + (IF IsOutOfStock(Head(items)) THEN 1 ELSE 0)

getStatsLowIncludingNone(items) ==
    [totalItems |-> Len(items),
     totalStock |-> TotalStock(items),
     totalValue |-> TotalValue(items),
     lowStockItems |-> LowStockItems(items) + OutOfStockItems(items),
     outOfStockItems |-> OutOfStockItems(items)]

getStats(items) ==
    [totalItems |-> Len(items),
     totalStock |-> TotalStock(items),
     totalValue |-> TotalValue(items),
     lowStockItems |-> LowStockItems(items),
     outOfStockItems |-> OutOfStockItems(items)]

ReadResult(op, items, arg) ==
    CASE op = "getAllItems" -> RetList(items)
      [] op = "exportData" -> RetText(Text("array", Json(items)))
      [] op = "getStats" -> RetStats(getStats(items))
      [] op = "getItemById" ->
            IF FindById(items, arg.id) = NoItem THEN RetNull
            ELSE RetItem(FindById(items, arg.id))
      [] op = "getItemByBarcode" ->
            IF FindByBarcode(items, arg.barcode) = NoItem THEN RetNull
            ELSE RetItem(FindByBarcode(items, arg.barcode))
      [] op = "searchItems" -> RetList(Search(items, arg.barcode))

\* The random suffixes generateId can draw.
Rands == {1, 2}

\* What a mutating operation computes from the items it got.
MutationStep(op, items, arg, rand) ==
    CASE op = "addItem" -> addItemStep(items, arg, MkId(now, rand), now)
      [] op = "updateItem" -> updateItemStep(items, arg, now)
      [] op = "removeStock" -> removeStockStep(items, arg.id, arg.quantity, now)
      [] op = "deleteItem" -> deleteItemStep(items, arg.id)

(***************************************************************************)
(* handleBarcodeDetected: the routing of a scanned or typed code.          *)
(***************************************************************************)
\* the routing with a single search hit treated like several
RouteNoSingle(exact, found, code) ==
    IF exact # NoItem THEN Resolution("ExactMatch", exact, <<>>, NullStr)
    ELSE IF Len(found) >= 1 THEN Resolution("MultipleMatches", NoItem, found, NullStr)
    ELSE Resolution("NoMatch", NoItem, <<>>, OrElse(code, Str(<<>>)))

\* The branches of handleBarcodeDetected: exact is what getItemByBarcode
\* returned (NoItem for null), found what searchItems returned; the form
\* offered on no match is pre-filled by UI.populateItemForm(null, code).
Route(exact, found, code) ==
    IF exact # NoItem THEN Resolution("ExactMatch", exact, <<>>, NullStr)
    ELSE IF Len(found) = 1 THEN Resolution("SingleMatch", found[1], <<>>, NullStr)
    ELSE IF Len(found) > 1 THEN Resolution("MultipleMatches", NoItem, found, NullStr)
    ELSE Resolution("NoMatch", NoItem, <<>>, OrElse(code, Str(<<>>)))

\* A read operation continues with what getAllItems returned.  On an
\* object that is no array find and filter are no functions: the
\* operation throws, unless it only hands the object on.
AfterRead(c, cache, timestamp) ==
    IF c.notArray
    THEN CASE c.op = "getAllItems" -> Return(c, RetObject)
           [] c.op = "exportData" -> Return(c, RetText(Text("object", <<>>)))
           [] OTHER -> RejectRead(c)
    ELSE IF c.app = "handleBarcodeDetected"
    THEN IF c.op = "getItemByBarcode"
         THEN IF FindByBarcode(c.items, c.arg.barcode) # NoItem
              THEN [Settle(c, "resolved", RetItem(FindByBarcode(c.items, c.arg.barcode)))
                        EXCEPT !.looked = c.items,
                               !.resolution =
                            Route(FindByBarcode(c.items, c.arg.barcode), <<>>, c.arg.barcode)]
              ELSE BeginGetAll([c EXCEPT !.op = "searchItems", !.looked = c.items],
                               FALSE, cache, timestamp)
         ELSE [Settle(c, "resolved", RetList(Search(c.items, c.arg.barcode)))
                   EXCEPT !.resolution =
                       Route(NoItem, Search(c.items, c.arg.barcode), c.arg.barcode)]
    ELSE Return(c, ReadResult(c.op, c.items, c.arg))

\* The operation of call c continues with the items getAllItems returned
\* (c.items); cache and timestamp are the cache as getAllItems left it.
\* A mutating operation computes its result and, unless there is nothing
\* to save, saves: local writes (or fails to write) at once, gist sends
\* the PATCH.
Proceed(s, c, cache, timestamp) ==
    \E rand \in Rands, writeOk \in BOOLEAN :
        LET out == IF c.op \in MutatingOps /\ ~c.notArray
                   THEN MutationStep(c.op, c.items, c.arg, rand)
                   ELSE NoOutcome
            d == [c EXCEPT !.out = out]
        IN  /\ calls' = [calls EXCEPT ![s] =
                    CASE c.op \in ReadOps -> AfterRead(c, cache, timestamp)
                      [] c.op \in MutatingOps /\ c.notArray -> RejectRead(c)
                      [] c.op \in MutatingOps /\ ~out.write -> Return(d, out.ret)
                      [] c.op \in MutatingOps /\ out.write /\ backend = "local" ->
                            [d EXCEPT !.pc = "saved", !.ok = writeOk,
                                      !.wrote = writeOk]
                      [] OTHER -> [d EXCEPT !.pc = "saving"]]
            /\ store' = IF /\ c.op \in MutatingOps
                           /\ out.write /\ backend = "local" /\ writeOk
                        THEN SavedContent(d, store)
                        ELSE store
            /\ content' = IF /\ c.op \in MutatingOps
                             /\ out.write /\ backend = "local" /\ writeOk
                          THEN "array"
                          ELSE content

(***************************************************************************)
(* Inputs.                                                                 *)
(***************************************************************************)
\* ids a caller can name: those of the stored items, and one of no item
KnownIds == {store[i].id : i \in 1..Len(store)} \cup {MissingId}

\* quantities typed into the item form: a negative number, a number, a
\* text that is no number
FormQuantities == {RawInt(0 - 1), RawInt(MaxQty), RawText}

\* quantities passed to removeStock by a caller
StockQuantities == {RawInt(n) : n \in (0 - 1)..MaxQty} \cup {RawText}

\* texts typed into the sale form
SaleQuantities ==
    {RawInt(n) : n \in (0 - 1)..MaxQty} \cup {RawFrac(1), RawFrac(0), RawText}

\* the item form as UI.getFormData reads it for a new item
AddDrafts ==
    {[id |-> NoId, barcode |-> NullStr, stockNumber |-> Str(<<"1">>),
      supplier |-> Str(<<"b">>), description |-> Str(<<"a">>),
      costPrice |-> RawInt(1), sellingPrice |-> RawText, quantity |-> q] :
        q \in FormQuantities}

\* the item form for an existing item with the quantity left empty, and a
\* patch that names a quantity only
Patches ==
    {[id |-> i, barcode |-> NullStr, stockNumber |-> Str(<<"1">>),
      supplier |-> Str(<<"b">>), description |-> Str(<<>>),
      costPrice |-> RawInt(1), sellingPrice |-> RawFrac(1), quantity |-> RawText] :
        i \in KnownIds}
    \cup {[NoData EXCEPT !.id = i, !.quantity = RawInt(0 - 1)] : i \in KnownIds}

\* codes a scanner yields or a user types
Codes == {Str(<<"1">>), Str(<<"A", "1">>), Str(<<"a", "1">>), Str(<<"a">>), Str(<<" ">>)}

Args(op) ==
    CASE op = "addItem" -> AddDrafts
      [] op = "updateItem" -> Patches
      [] op = "removeStock" ->
            {[NoData EXCEPT !.id = i, !.quantity = q] :
                i \in KnownIds, q \in StockQuantities}
      [] op \in {"deleteItem", "getItemById"} ->
            {[NoData EXCEPT !.id = i] : i \in KnownIds}
      [] op = "getAllItems" -> {NoData}
      [] op \in {"getItemByBarcode", "searchItems"} ->
            {[NoData EXCEPT !.barcode = code] : code \in Codes}

(***************************************************************************)
(* Actions.                                                                *)
(***************************************************************************)
\* A caller invokes a Storage operation.
InFlight(c) == c.pc \notin {"idle", "done"}

\* The calls once c has been called.  Storage takes every call as it comes:
\* nothing waits for the calls in flight.  Each call remembers in overlapped
\* whether a mutating operation other than itself was in flight with it.
Issue(c) ==
    [t \in Slots |->
        IF t = issued + 1
        THEN [c EXCEPT !.overlapped =
                \E u \in Slots : InFlight(calls[u]) /\ calls[u].op \in WritingOps]
        ELSE IF InFlight(calls[t]) /\ InFlight(c) /\ c.op \in WritingOps
        THEN [calls[t] EXCEPT !.overlapped = TRUE]
        ELSE calls[t]]

Call(op, arg) ==
    /\ issued < MaxCalls
    /\ calls' = Issue(BeginGetAll([IdleCall EXCEPT !.op = op, !.arg = arg],
                                  Forces(op), itemsCache, cacheTimestamp))
    /\ issued' = issued + 1
    /\ UNCHANGED <<session, scanner, backend, store, content, itemsCache, cacheTimestamp, now>>

CallMutation ==
    \E op \in MutatingOps : \E arg \in Args(op) : Call(op, arg)

CallRead ==
    \E arg \in Args("getItemById") : Call("getItemById", arg)

\* getAllItems called directly; forceRefresh is a parameter of the gist
\* backend only
CallGetAllItems ==
    /\ issued < MaxCalls
    /\ \E forceRefresh \in (IF backend = "gist" THEN BOOLEAN ELSE {FALSE}) :
            calls' = Issue(BeginGetAll([IdleCall EXCEPT !.op = "getAllItems"],
                                       forceRefresh, itemsCache, cacheTimestamp))
    /\ issued' = issued + 1
    /\ UNCHANGED <<session, scanner, backend, store, content, itemsCache, cacheTimestamp, now>>

CallExportData == Call("exportData", NoData)

\* texts handed to importData: texts that are no JSON or no array, arrays
\* written by hand, and the texts exportData returned
ImportPayloads ==
    {Text("garbage", <<>>), Text("object", <<>>),
     Text("array", <<Seed(2, RawInt(1))>>)}
    \cup {calls[t].ret.text : t \in {u \in Slots : calls[u].ret.kind = "text"}}

\* importData: JSON.parse and the Array.isArray test run at once and make the
\* promise reject; an array is saved whole.  local: saveAllItems writes at
\* once, and when the write fails nothing ever settles importData's promise
\* (only the success of saveAllItems has a callback).  gist: the PATCH is
\* sent.
importDataAnyJson(payload, writeOk) ==
    LET c == [IdleCall EXCEPT !.op = "importData", !.payload = payload,
                              !.out = Outcome(payload.kind # "garbage", payload.items,
                                              RetCount(Len(payload.items)))]
    IN  CASE payload.kind = "garbage" -> Settle(c, "rejected", RetError("SyntaxError"))
          [] backend = "gist" -> [c EXCEPT !.pc = "saving"]
          [] writeOk -> [c EXCEPT !.pc = "saved", !.ok = TRUE, !.wrote = TRUE]
          [] OTHER -> [c EXCEPT !.pc = "abandoned"]

importData(payload, writeOk) ==
    LET c == [IdleCall EXCEPT !.op = "importData", !.payload = payload,
                              !.out = Outcome(payload.kind = "array", payload.items,
                                              RetCount(Len(payload.items)))]
    IN  CASE payload.kind = "garbage" -> Settle(c, "rejected", RetError("SyntaxError"))
          [] payload.kind = "object" ->
                Settle(c, "rejected", RetError("Invalid data format"))
          [] backend = "gist" -> [c EXCEPT !.pc = "saving"]
          [] writeOk -> [c EXCEPT !.pc = "saved", !.ok = TRUE, !.wrote = TRUE]
          [] OTHER -> [c EXCEPT !.pc = "abandoned"]

CallImportData ==
    /\ issued < MaxCalls
    /\ \E payload \in ImportPayloads, writeOk \in BOOLEAN :
            /\ calls' = Issue(importData(payload, writeOk))
            /\ store' = IF importData(payload, writeOk).wrote
                        THEN SavedContent(importData(payload, writeOk), store)
                        ELSE store
            /\ content' = IF importData(payload, writeOk).wrote THEN "array"
                          ELSE content
    /\ issued' = issued + 1
    /\ UNCHANGED <<session, scanner, backend, itemsCache, cacheTimestamp, now>>

\* clearAll.  local: the entry is removed at once.  gist: an empty array is
\* saved.
clearAll ==
    LET c == [IdleCall EXCEPT !.op = "clearAll",
                              !.out = Outcome(TRUE, <<>>, RetVoid)]
    IN  IF backend = "gist" THEN [c EXCEPT !.pc = "saving"]
        ELSE Return([c EXCEPT !.wrote = TRUE], RetVoid)

CallClearAll ==
    /\ issued < MaxCalls
    /\ calls' = Issue(clearAll)
    /\ store' = IF backend = "local" THEN <<>> ELSE store
    /\ content' = IF backend = "local" THEN "missing" ELSE content
    /\ issued' = issued + 1
    /\ UNCHANGED <<session, scanner, backend, itemsCache, cacheTimestamp, now>>

\* The readings of Date.now() a behaviour passes through: around the start
\* and around the end of the cache's validity.
Times == {1, 2, CACHE_DURATION, CACHE_DURATION + 1, CACHE_DURATION + 2}

\* Time passes.
Tick ==
    /\ \E t \in Times : t > now /\ now' = t
    /\ UNCHANGED <<session, scanner, backend, store, content, itemsCache, cacheTimestamp, calls, issued>>

\* processSale: the sale form is submitted
processSale(itemId, form) ==
    LET quantity == ParseInt(form)
        c == [IdleCall EXCEPT !.app = "processSale", !.form = form]
    IN  IF ~IsNum(quantity) \/ quantity.v = 0 \/ quantity.v < 1
        THEN [c EXCEPT !.pc = "done", !.toast = "Please enter a valid quantity"]
        ELSE BeginGetAll([c EXCEPT !.op = "removeStock", !.arg.id = itemId,
                                   !.arg.quantity = RawInt(quantity.v)],
                         Forces("removeStock"), itemsCache, cacheTimestamp)

CallProcessSale ==
    /\ issued < MaxCalls
    /\ \E itemId \in KnownIds, form \in SaleQuantities :
            calls' = Issue(processSale(itemId, form))
    /\ issued' = issued + 1
    /\ UNCHANGED <<session, scanner, backend, store, content, itemsCache, cacheTimestamp, now>>

\* handleBarcodeDetected: a code was scanned or typed
CallHandleBarcodeDetected ==
    /\ issued < MaxCalls
    /\ \E code \in Codes :
            calls' = Issue(
                BeginGetAll([IdleCall EXCEPT !.app = "handleBarcodeDetected",
                                             !.op = "getItemByBarcode",
                                             !.arg.barcode = code],
                            FALSE, itemsCache, cacheTimestamp))
    /\ issued' = issued + 1
    /\ UNCHANGED <<session, scanner, backend, store, content, itemsCache, cacheTimestamp, now>>

\* The callback queued behind a getAllItems that returned at once.
Then(s) ==
    /\ calls[s].pc = "then"
    /\ Proceed(s, calls[s], itemsCache, cacheTimestamp)
    /\ UNCHANGED <<session, scanner, backend, itemsCache, cacheTimestamp, now, issued>>

\* GitHub answers the GET with the file's content, or the request fails.
Reply(s) ==
    /\ calls[s].pc = "fetch"
    /\ \E ok \in BOOLEAN :
            calls' = [calls EXCEPT ![s] =
                [calls[s] EXCEPT !.pc = "fetched", !.ok = ok,
                                 !.body = IF ok THEN content ELSE "array",
                                 !.items = IF ok THEN store ELSE <<>>]]
    /\ UNCHANGED <<session, scanner, backend, store, content, itemsCache, cacheTimestamp, now, issued>>

\* getAllItems answering a failed GET with no items, as the local backend
\* answers an unreadable entry.
ResumeSwallowing(s) ==
    /\ calls[s].pc = "fetched"
    /\ MicrotasksDrained
    /\ IF calls[s].ok /\ calls[s].body \in {"array", "missing"}
       THEN /\ itemsCache' = Cache(calls[s].items)
            /\ cacheTimestamp' = now
            /\ Proceed(s, [calls[s] EXCEPT !.src = "store"],
                       Cache(calls[s].items), now)
       ELSE /\ Proceed(s, [calls[s] EXCEPT !.items = <<>>, !.src = "store"],
                       itemsCache, cacheTimestamp)
            /\ UNCHANGED <<itemsCache, cacheTimestamp>>
    /\ UNCHANGED <<session, scanner, backend, now, issued>>

\* getAllItems resumes after the GET.  It parses the file's content (none
\* stands for no items), fills the cache and returns a copy of the items;
\* an object that is no array is cached too, but cannot be copied.  When
\* the request failed, the content is no JSON or the copy failed, it
\* returns a copy of the cache if there is one, else throws.
Resume(s) ==
    /\ calls[s].pc = "fetched"
    /\ MicrotasksDrained
    /\ IF calls[s].ok /\ calls[s].body \in {"array", "missing"}
       THEN /\ itemsCache' = Cache(calls[s].items)
            /\ cacheTimestamp' = now
            /\ Proceed(s, [calls[s] EXCEPT !.src = "store"],
                       Cache(calls[s].items), now)
       ELSE IF calls[s].ok /\ calls[s].body = "object"
       THEN /\ itemsCache' = ObjectCache
            /\ cacheTimestamp' = now
            /\ calls' = [calls EXCEPT ![s] = RejectRead(calls[s])]
            /\ UNCHANGED <<store, content>>
       ELSE IF ~itemsCache.null /\ ~itemsCache.object
       THEN /\ Proceed(s, [calls[s] EXCEPT !.items = itemsCache.items, !.src = "cache"],
                       itemsCache, cacheTimestamp)
            /\ UNCHANGED <<itemsCache, cacheTimestamp>>
       ELSE /\ calls' = [calls EXCEPT ![s] = RejectRead(calls[s])]
            /\ UNCHANGED <<store, content, itemsCache, cacheTimestamp>>
    /\ UNCHANGED <<session, scanner, backend, now, issued>>

\* GitHub applies the PATCH, or the request fails.
Patch(s) ==
    /\ calls[s].pc = "saving"
    /\ \E ok \in BOOLEAN :
            /\ calls' = [calls EXCEPT ![s] =
                    [calls[s] EXCEPT !.pc = "saved", !.ok = ok, !.wrote = ok]]
            /\ store' = IF ok THEN SavedContent(calls[s], store) ELSE store
            /\ content' = IF ok THEN "array" ELSE content
    /\ UNCHANGED <<session, scanner, backend, itemsCache, cacheTimestamp, now, issued>>

\* saveAllItems filling the cache before it knows whether the PATCH succeeded.
FinishCachingUnwritten(s) ==
    /\ calls[s].pc = "saved"
    /\ MicrotasksDrained
    /\ itemsCache' = IF backend = "gist"
                     THEN Cache(calls[s].out.items) ELSE itemsCache
    /\ cacheTimestamp' = IF backend = "gist" THEN now ELSE cacheTimestamp
    /\ calls' = [calls EXCEPT ![s] =
            IF calls[s].ok THEN Return(calls[s], calls[s].out.ret)
            ELSE Settle(calls[s], "rejected", RetNone)]
    /\ UNCHANGED <<session, scanner, backend, store, content, now, issued>>

\* The operation continues after saveAllItems.  gist: saveAllItems resumes
\* after the PATCH, overwrites the cache, and the operation returns.  local:
\* the promise of saveAllItems, already settled by the write, runs the
\* operation's last callback after the callbacks queued before it.  On a
\* failure the operation's promise rejects.
Finish(s) ==
    /\ calls[s].pc = "saved"
    /\ MicrotasksDrained
    /\ IF calls[s].ok
       THEN /\ itemsCache' = IF backend = "gist"
                             THEN Cache(calls[s].out.items) ELSE itemsCache
            /\ cacheTimestamp' = IF backend = "gist" THEN now ELSE cacheTimestamp
            /\ calls' = [calls EXCEPT ![s] = Return(calls[s], calls[s].out.ret)]
       ELSE /\ calls' = [calls EXCEPT ![s] = Settle(calls[s], "rejected", RetNone)]
            /\ UNCHANGED <<itemsCache, cacheTimestamp>>
    /\ UNCHANGED <<session, scanner, backend, store, content, now, issued>>

\* The Storage module under direct calls, in either backend.
Next ==
    \/ CallMutation
    \/ CallRead
    \/ \E s \in Slots : Then(s)
    \/ \E s \in Slots : Reply(s)
    \/ \E s \in Slots : Resume(s)
    \/ \E s \in Slots : Patch(s)
    \/ \E s \in Slots : Finish(s)

Spec == Init /\ [][Next]_vars

(***************************************************************************)
(* Stock removal: removeStock called directly and through the sale form,   *)
(* with getItemById reads, over stores holding every kind of quantity a    *)
(* stored item can have.                                                   *)
(***************************************************************************)
StockStores ==
    {<<Seed(1, q)>> : q \in {RawInt(n) : n \in (0 - 1)..MaxQty} \cup {RawText}}
    \cup {<<Seed(2, RawInt(1)), Seed(1, RawInt(MaxQty))>>}

InitStock == Loaded(StockStores)

CallRemoveStock ==
    \E arg \in Args("removeStock") : Call("removeStock", arg)

NextStock ==
    \/ CallRemoveStock
    \/ CallProcessSale
    \/ CallRead
    \/ \E s \in Slots : Then(s)
    \/ \E s \in Slots : Reply(s)
    \/ \E s \in Slots : Resume(s)
    \/ \E s \in Slots : Patch(s)
    \/ \E s \in Slots : Finish(s)

SpecStock == InitStock /\ [][NextStock]_vars

(***************************************************************************)
(* Lookup: codes scanned or typed, over stores whose barcodes and texts    *)
(* overlap.                                                                *)
(***************************************************************************)
LookupStores ==
    {<<Seed(2, RawInt(1)), Seed(1, RawInt(1))>>,
     <<Seed(3, RawInt(1))>>,
     <<Seed(3, RawInt(1)), Seed(1, RawInt(0))>>}

InitLookup == Loaded(LookupStores)

NextLookup ==
    \/ CallHandleBarcodeDetected
    \/ \E s \in Slots : Then(s)
    \/ \E s \in Slots : Reply(s)
    \/ \E s \in Slots : Resume(s)

SpecLookup == InitLookup /\ [][NextLookup]_vars

(***************************************************************************)
(* The read cache of the gist backend: reads as time passes.  The page is  *)
(* freshly loaded, or holds a cache that an earlier read filled: a read    *)
(* that was in flight while a removeStock wrote leaves a cache older than  *)
(* the store.                                                              *)
(***************************************************************************)
InitCache ==
    /\ backend = "gist"
    /\ store = <<Seed(1, RawInt(1))>>
    /\ content = "array"
    /\ \/ itemsCache = NullCache /\ cacheTimestamp = 0
       \/ itemsCache = Cache(<<Seed(1, RawInt(MaxQty))>>) /\ cacheTimestamp = 1
    /\ now = 1
    /\ calls = [s \in Slots |-> IdleCall]
    /\ issued = 0
    /\ session = SignedIn
    /\ scanner = NoScanner

NextCache ==
    \/ CallGetAllItems
    \/ CallRead
    \/ Tick
    \/ \E s \in Slots : Then(s)
    \/ \E s \in Slots : Reply(s)
    \/ \E s \in Slots : Resume(s)

SpecCache == InitCache /\ [][NextCache]_vars

(***************************************************************************)
(* Export, import and clear.  The store holds an item, perhaps one whose   *)
(* quantity updateItem set from a text that is no number (the store holds  *)
(* null for it, and the gist cache still the NaN).  Every step that is     *)
(* ready is taken in the end: callbacks run and requests are answered.     *)
(***************************************************************************)
InitTransfer ==
    \/ Loaded({<<Seed(1, RawInt(1))>>})
    \/ /\ backend = "gist"
       /\ store = <<Seed(1, RawText)>>
       /\ content = "array"
       /\ itemsCache = Cache(<<Overlay(Seed(1, RawInt(1)),
                                       [NoData EXCEPT !.quantity = RawText], 0)>>)
       /\ cacheTimestamp = 1
       /\ now = 1
       /\ calls = [s \in Slots |-> IdleCall]
       /\ issued = 0
       /\ session = SignedIn
       /\ scanner = NoScanner

NextTransfer ==
    \/ CallExportData
    \/ CallImportData
    \/ CallClearAll
    \/ CallGetAllItems
    \/ \E s \in Slots : Then(s)
    \/ \E s \in Slots : Reply(s)
    \/ \E s \in Slots : Resume(s)
    \/ \E s \in Slots : Patch(s)
    \/ \E s \in Slots : Finish(s)

SpecTransfer ==
    /\ InitTransfer
    /\ [][NextTransfer]_vars
    /\ \A s \in Slots :
            /\ WF_vars(Then(s))
            /\ WF_vars(Reply(s))
            /\ WF_vars(Resume(s))
            /\ WF_vars(Patch(s))
            /\ WF_vars(Finish(s))

(***************************************************************************)
(* Reads of a store whose text is missing, no JSON, or no array (it was    *)
(* edited outside the application), in either backend.                     *)
(***************************************************************************)
InitUnreadable ==
    /\ backend \in {"local", "gist"}
    /\ \/ content = "array" /\ store = <<Seed(1, RawInt(1))>>
       \/ content \in ContentKinds \ {"array"} /\ store = <<>>
    /\ itemsCache = NullCache
    /\ cacheTimestamp = 0
    /\ now = 1
    /\ calls = [s \in Slots |-> IdleCall]
    /\ issued = 0
    /\ session = SignedIn
    /\ scanner = NoScanner

NextUnreadable ==
    \/ CallGetAllItems
    \/ CallRead
    \/ \E s \in Slots : Then(s)
    \/ \E s \in Slots : Reply(s)
    \/ \E s \in Slots : Resume(s)

SpecUnreadable == InitUnreadable /\ [][NextUnreadable]_vars

(***************************************************************************)
(* updateItem with patches whose fields are absent, empty, zero, present   *)
(* or unparsable, for a stored and for an unknown id.                      *)
(***************************************************************************)
UpdatePatches ==
    UNION {{[NoData EXCEPT !.id = i],
            [id |-> i, barcode |-> Str(<<>>), stockNumber |-> Str(<<>>),
             supplier |-> Str(<<>>), description |-> Str(<<>>),
             costPrice |-> RawInt(0), sellingPrice |-> RawInt(0),
             quantity |-> RawInt(0)],
            [id |-> i, barcode |-> Str(<<"a">>), stockNumber |-> Str(<<"1">>),
             supplier |-> Str(<<"a">>), description |-> Str(<<"a">>),
             costPrice |-> RawFrac(0), sellingPrice |-> RawInt(MaxQty),
             quantity |-> RawFrac(1)],
            [NoData EXCEPT !.id = i, !.barcode = NullStr,
                           !.description = Str(<<"1">>),
                           !.quantity = RawText]} : i \in KnownIds}

CallUpdateItem == \E arg \in UpdatePatches : Call("updateItem", arg)

InitUpdate == Loaded({<<Seed(1, RawInt(MaxQty))>>})

NextUpdate ==
    \/ CallUpdateItem
    \/ CallRead
    \/ \E s \in Slots : Then(s)
    \/ \E s \in Slots : Reply(s)
    \/ \E s \in Slots : Resume(s)
    \/ \E s \in Slots : Patch(s)
    \/ \E s \in Slots : Finish(s)

SpecUpdate == InitUpdate /\ [][NextUpdate]_vars

(***************************************************************************)
(* The life of a record: addItem, then updateItem and removeStock while    *)
(* the clock advances or stands still between two calls.  One patch        *)
(* carries createdAt and updatedAt fields of its own.                      *)
(***************************************************************************)
RecordPatches ==
    UNION {{[id |-> i, barcode |-> Str(<<"a">>), stockNumber |-> UndefStr,
             supplier |-> UndefStr, description |-> UndefStr,
             costPrice |-> RawUndef, sellingPrice |-> RawUndef,
             quantity |-> RawInt(MaxQty), createdAt |-> CACHE_DURATION,
             updatedAt |-> 0],
            [NoData EXCEPT !.id = i, !.quantity = RawText]} : i \in KnownIds}

CallRecordAdd == \E arg \in AddDrafts : Call("addItem", arg)

CallRecordUpdate == \E arg \in RecordPatches : Call("updateItem", arg)

CallRecordRemoveStock ==
    \E i \in KnownIds :
        Call("removeStock", [NoData EXCEPT !.id = i, !.quantity = RawInt(1)])

\* the clock reaches the next millisecond, or the one after
RecordTick ==
    /\ \E t \in {2, 3} : t > now /\ now' = t
    /\ UNCHANGED <<session, scanner, backend, store, content, itemsCache, cacheTimestamp, calls, issued>>

InitRecord == Loaded({<<Seed(1, RawInt(MaxQty))>>})

NextRecord ==
    \/ CallRecordAdd
    \/ CallRecordUpdate
    \/ CallRecordRemoveStock
    \/ RecordTick
    \/ \E s \in Slots : Then(s)
    \/ \E s \in Slots : Reply(s)
    \/ \E s \in Slots : Resume(s)
    \/ \E s \in Slots : Patch(s)
    \/ \E s \in Slots : Finish(s)

SpecRecord == InitRecord /\ [][NextRecord]_vars

(***************************************************************************)
(* Queries: searchItems, getItemByBarcode and getAllItems on collections   *)
(* that hold records with a string, an empty and a null barcode, and on an *)
(* empty or absent store.                                                  *)
(***************************************************************************)
NoBarcodeItem ==
    NewItem([SeedData(3, RawInt(1)) EXCEPT !.barcode = UndefStr,
                                           !.description = Str(<<"a">>)],
            MkId(0, 4), 0)

QueryStores ==
    {<<>>,
     <<Seed(1, RawInt(1)), NoBarcodeItem>>,
     <<NoBarcodeItem, Seed(2, RawInt(1)), Seed(3, RawInt(0))>>}

Queries ==
    {Str(<<"a">>), Str(<<"A">>), Str(<<"1">>), Str(<<"a", "1">>),
     Str(<<"A", "b">>), Str(<<"a", " ">>), Str(<<" ", "A">>), Str(<<" ", " ">>),
     Str(<<>>), UndefStr, NullStr}

CallSearchItems ==
    \E query \in Queries : Call("searchItems", [NoData EXCEPT !.barcode = query])

CallGetItemByBarcode ==
    \E barcode \in Queries :
        Call("getItemByBarcode", [NoData EXCEPT !.barcode = barcode])

InitQuery ==
    /\ backend \in {"local", "gist"}
    /\ store \in QueryStores
    /\ content \in IF store = <<>> THEN {"array", "missing"} ELSE {"array"}
    /\ itemsCache = NullCache
    /\ cacheTimestamp = 0
    /\ now = 1
    /\ calls = [s \in Slots |-> IdleCall]
    /\ issued = 0
    /\ session = SignedIn
    /\ scanner = NoScanner

NextQuery ==
    \/ CallSearchItems
    \/ CallGetItemByBarcode
    \/ CallGetAllItems
    \/ \E s \in Slots : Then(s)
    \/ \E s \in Slots : Reply(s)
    \/ \E s \in Slots : Resume(s)

SpecQuery == InitQuery /\ [][NextQuery]_vars

(***************************************************************************)
(* getStats on collections with quantities around the low-stock limit,     *)
(* with a negative and a null quantity, and on a gist cache that holds a   *)
(* not-a-number quantity.                                                  *)
(***************************************************************************)
Stocked(rand, quantity, costPrice) ==
    [Seed(rand, RawInt(1)) EXCEPT !.quantity = quantity, !.costPrice = costPrice]

StatsStores ==
    {<<>>,
     <<Stocked(1, Num(0), Num(2)), Stocked(2, Num(5), Num(3)),
       Stocked(3, Num(6), Num(2))>>,
     <<Stocked(1, Num(1), Num(3)), Stocked(2, Num(0 - 1), Num(2)),
       Stocked(3, Null, Num(2))>>,
     <<Stocked(1, Num(0), Num(0)), Stocked(2, Num(0), Num(2))>>}

CallGetStats == Call("getStats", NoData)

InitStats ==
    \/ Loaded(StatsStores)
    \/ /\ backend = "gist"
       /\ store = <<Stocked(1, Null, Num(2)), Stocked(2, Num(1), Num(2))>>
       /\ content = "array"
       /\ itemsCache = Cache(<<Stocked(1, NaN, Num(2)), Stocked(2, Num(1), Num(2))>>)
       /\ cacheTimestamp = 1
       /\ now = 1
       /\ calls = [s \in Slots |-> IdleCall]
       /\ issued = 0
       /\ session = SignedIn
       /\ scanner = NoScanner

NextStats ==
    \/ CallGetStats
    \/ CallGetAllItems
    \/ \E s \in Slots : Then(s)
    \/ \E s \in Slots : Reply(s)
    \/ \E s \in Slots : Resume(s)

SpecStats == InitStats /\ [][NextStats]_vars

(***************************************************************************)
(* The Scanner modules and the lookup that App starts for a scanned code.  *)
(***************************************************************************)
DETECTION_COOLDOWN == 2000

ScanCodes == {Str(<<"1">>), Str(<<"a">>), Str(<<>>)}

\* Scanner.start(handleBarcodeDetected): nothing when the camera runs;
\* otherwise the callback is kept and the camera is asked for.
ScannerStart ==
    /\ scanner.view = "scan-view"
    /\ ~scanner.isRunning
    /\ scanner.requested + scanner.streams < MaxStreams
    /\ scanner' = [scanner EXCEPT
                       !.onDetectCallback = TRUE,
                       !.requested = @ + 1,
                       !.newest = TRUE,
                       \* the stream modules make a new reader here
                       !.held = IF scanner.variant \in Streaming THEN FALSE ELSE @,
                       !.invoked = 0]
    /\ UNCHANGED <<session, backend, store, content, itemsCache, cacheTimestamp, now,
                   calls, issued>>

\* the camera answers one of the requests (last: that of the last start):
\* a stream is open and the camera runs, or start rejects.  The snapshot
\* modules keep the stream in videoStream; in the stream modules it belongs
\* to the reader that asked for it.
CameraAnswer ==
    /\ \E last, ok \in BOOLEAN :
            /\ IF last THEN scanner.newest
                       ELSE scanner.requested > (IF scanner.newest THEN 1 ELSE 0)
            /\ scanner' = [scanner EXCEPT
                    !.requested = @ - 1,
                    !.newest = IF last THEN FALSE ELSE @,
                    !.isRunning = IF ok THEN TRUE ELSE @,
                    !.streams = IF ok THEN @ + 1 ELSE @,
                    !.held = IF ok /\ (last \/ scanner.variant \notin Streaming)
                             THEN TRUE ELSE @]
    /\ UNCHANGED <<session, backend, store, content, itemsCache, cacheTimestamp, now,
                   calls, issued>>

\* stop() and stopCamera().  html5-stream: nothing unless the camera runs,
\* and then html5QrCode.stop() is awaited.  zxing-stream: nothing unless
\* the camera runs, and then the flag, the callback and the last code are
\* cleared at once.  Snapshot modules: flag and callback are cleared at
\* once.  The stream the module refers to is closed.
Released(sc) ==
    [sc EXCEPT !.streams = IF sc.held THEN @ - 1 ELSE @, !.held = FALSE]

StopScanner(sc) ==
    CASE sc.variant = "html5-stream" ->
            IF sc.isRunning THEN [sc EXCEPT !.stopping = TRUE] ELSE sc
      [] sc.variant = "zxing-stream" ->
            IF sc.isRunning
            THEN [Released(sc) EXCEPT !.isRunning = FALSE,
                                      !.onDetectCallback = FALSE,
                                      !.lastDetectedCode = NullStr]
            ELSE sc
      [] OTHER -> [Released(sc) EXCEPT !.isRunning = FALSE,
                                       !.onDetectCallback = FALSE]

\* the stop button
ScannerStop ==
    /\ scanner.view = "scan-view"
    /\ scanner' = StopScanner(scanner)
    /\ scanner' # scanner
    /\ UNCHANGED <<session, backend, store, content, itemsCache, cacheTimestamp, now,
                   calls, issued>>

\* a navigation button: the view is switched, and the scanner is stopped
\* when another view than the scan view is chosen and isActive() holds
Views == {"scan-view", "inventory-view"}

SwitchView ==
    /\ \E viewId \in Views :
            /\ viewId # scanner.view
            /\ scanner' = IF viewId # "scan-view" /\ scanner.isRunning
                          THEN [StopScanner(scanner) EXCEPT !.view = viewId]
                          ELSE [scanner EXCEPT !.view = viewId]
    /\ UNCHANGED <<session, backend, store, content, itemsCache, cacheTimestamp, now,
                   calls, issued>>

\* html5-stream: html5QrCode.stop() resolves (the callback is cleared) or
\* rejects (it is not)
StopDone ==
    /\ scanner.stopping
    /\ \E ok \in BOOLEAN :
            scanner' = [(IF ok THEN Released(scanner) ELSE scanner) EXCEPT
                            !.stopping = FALSE, !.isRunning = FALSE,
                            !.onDetectCallback = IF ok THEN FALSE ELSE @]
    /\ UNCHANGED <<session, backend, store, content, itemsCache, cacheTimestamp, now,
                   calls, issued>>

\* what the module does with a decoded text: vibrate, stop, and call the
\* callback if one is (still) set.  zxing-stream drops the text when it is
\* the last one and the cooldown has not passed.  The stream modules drop
\* an empty text.
Dropped(sc, code) ==
    \/ sc.variant \in Streaming /\ ~Truthy(code)
    \/ /\ sc.variant = "zxing-stream"
       /\ code = sc.lastDetectedCode
       /\ (now - sc.lastDetectionTime) < DETECTION_COOLDOWN

Noted(sc, code) ==
    IF sc.variant = "zxing-stream"
    THEN [sc EXCEPT !.lastDetectedCode = code, !.lastDetectionTime = now]
    ELSE sc

Recorded(sc, code) ==
    [sc EXCEPT !.decoded = Append(@, code), !.active = Append(@, sc.isRunning)]

\* the state of the module after the text, and whether the callback runs
Detected(sc, code) ==
    IF Dropped(sc, code)
    THEN [scanner |-> Recorded(sc, code), callback |-> FALSE]
    ELSE LET stopped == StopScanner(Noted(Recorded(sc, code), code)) IN
         [scanner |-> IF stopped.onDetectCallback
                      THEN [stopped EXCEPT !.delivered = Append(@, code),
                                           !.invoked = @ + 1]
                      ELSE stopped,
          callback |-> stopped.onDetectCallback]

\* App.handleBarcodeDetected(code), called by the module
Deliver(sc, code) ==
    /\ scanner' = Detected(sc, code).scanner
    /\ IF Detected(sc, code).callback
       THEN /\ calls' = Issue(
                    BeginGetAll([IdleCall EXCEPT !.app = "handleBarcodeDetected",
                                                 !.op = "getItemByBarcode",
                                                 !.arg.barcode = code],
                                FALSE, itemsCache, cacheTimestamp))
            /\ issued' = issued + 1
       ELSE UNCHANGED <<calls, issued>>
    /\ UNCHANGED <<session, backend, store, content, itemsCache, cacheTimestamp, now>>

\* a stream module decodes a frame: html5-stream while the camera runs,
\* zxing-stream also in the first decode that decodeFromVideoDevice makes
\* before start sets isRunning
Detect ==
    /\ scanner.variant \in Streaming
    /\ \/ scanner.isRunning
       \/ scanner.variant = "zxing-stream" /\ scanner.requested > 0
    /\ Len(scanner.decoded) < MaxCalls
    /\ \E code \in ScanCodes : Deliver(scanner, code)

\* the capture button of a snapshot module: rejected unless the camera runs
Capture ==
    /\ scanner.view = "scan-view"
    /\ scanner.variant \notin Streaming
    /\ scanner.isRunning
    /\ ~scanner.capture
    /\ scanner' = [scanner EXCEPT !.capture = TRUE]
    /\ UNCHANGED <<session, backend, store, content, itemsCache, cacheTimestamp, now,
                   calls, issued>>

\* the snapshot is decoded, or holds no code
DecodeResult ==
    /\ scanner.capture
    /\ Len(scanner.decoded) < MaxCalls
    /\ \/ \E code \in ScanCodes :
            Deliver([scanner EXCEPT !.capture = FALSE], code)
       \/ /\ scanner' = [scanner EXCEPT !.capture = FALSE]
          /\ UNCHANGED <<session, backend, store, content, itemsCache, cacheTimestamp,
                         now, calls, issued>>

InitScanner ==
    /\ backend \in {"local", "gist"}
    /\ store = <<Seed(1, RawInt(1))>>
    /\ content = "array"
    /\ itemsCache = NullCache
    /\ cacheTimestamp = 0
    /\ now = 1
    /\ calls = [s \in Slots |-> IdleCall]
    /\ issued = 0
    /\ session = SignedIn
    /\ scanner \in {IdleScanner(v) : v \in ScannerVariants}

NextScanner ==
    \/ ScannerStart
    \/ CameraAnswer
    \/ ScannerStop
    \/ SwitchView
    \/ StopDone
    \/ Detect
    \/ Capture
    \/ DecodeResult
    \/ \E s \in Slots : Then(s)
    \/ \E s \in Slots : Reply(s)
    \/ \E s \in Slots : Resume(s)

SpecScanner == InitScanner /\ [][NextScanner]_vars

(***************************************************************************)
(* One client whose calls follow each other, on a store that never fails.  *)
(***************************************************************************)
\* no call is under way
Quiet == \A s \in Slots : calls[s].pc \in {"idle", "done"}

\* every request and every write that has been answered has succeeded
NoFailure == \A s \in Slots : calls[s].pc \in {"fetched", "saved"} => calls[s].ok

NextInTurn ==
    \/ Quiet /\ CallMutation
    \/ Quiet /\ CallRead
    \/ \E s \in Slots : Then(s) /\ NoFailure'
    \/ \E s \in Slots : Reply(s) /\ NoFailure'
    \/ \E s \in Slots : Resume(s)
    \/ \E s \in Slots : Patch(s) /\ NoFailure'
    \/ \E s \in Slots : Finish(s)

SpecInTurn == Init /\ [][NextInTurn]_vars

(***************************************************************************)
(* The session of the gist backend: authenticate, logout and reads.        *)
(***************************************************************************)
\* logout(): token, gist id and cache are removed
logout(sess) == [sess EXCEPT !.token = "none", !.gistId = "none"]

Logout ==
    /\ session' = logout(session)
    /\ session' # session \/ ~itemsCache.null
    /\ itemsCache' = NullCache
    /\ cacheTimestamp' = 0
    /\ UNCHANGED <<scanner, backend, store, content, now, calls, issued>>

\* authenticate(token, existingGistId): the token is stored at once and
\* GET /user is sent with it
AuthStart(l) ==
    /\ session.login[l].pc = "idle"
    /\ \E token \in Tokens, existingGistId \in {"none", "g1"} :
            session' = [session EXCEPT
                !.token = token,
                !.login[l] = [NoLogin EXCEPT !.pc = "user", !.token = token,
                                             !.existingGistId = existingGistId,
                                             !.sent = token]]
    /\ UNCHANGED <<scanner, backend, store, content, itemsCache, cacheTimestamp,
                   now, calls, issued>>

\* authenticate throws: logout() and the promise rejects
AuthFailed(sess, l) ==
    [logout(sess) EXCEPT !.login[l].pc = "done", !.login[l].settled = "rejected"]

\* setGistId(gistId) and the promise resolves
AuthSucceeded(sess, l, gistId) ==
    [sess EXCEPT !.gistId = gistId, !.login[l].pc = "done",
                 !.login[l].settled = "resolved", !.login[l].gistId = gistId]

\* authenticate sends its next request: githubRequest throws when no token
\* is stored, else the request carries the token stored now
AuthRequest(sess, l, pc) ==
    IF sess.token = "none"
    THEN AuthFailed(sess, l)
    ELSE [sess EXCEPT !.login[l].pc = pc, !.login[l].sent = sess.token]

\* a request of authenticate is answered; GitHub accepts it only when it
\* carries a good token.  After GET /user: the gist is asked for, or
\* created.  After GET /gists/id: the file is there, or is added.  After
\* the PATCH and after the POST: the gist id is stored.
AuthReply(l) ==
    LET a == session.login[l] IN
    /\ a.pc \in {"user", "gist", "file", "create"}
    /\ \E ok, hasFile \in BOOLEAN :
            /\ ok => a.sent = "good"
            /\ session' =
                IF ~ok THEN AuthFailed(session, l)
                ELSE CASE a.pc = "user" ->
                            AuthRequest([session EXCEPT !.passed = @ \cup {a.sent}], l,
                                        IF a.existingGistId # "none"
                                        THEN "gist" ELSE "create")
                       [] a.pc = "gist" ->
                            IF hasFile
                            THEN AuthSucceeded(session, l, a.existingGistId)
                            ELSE AuthRequest(session, l, "file")
                       [] a.pc = "file" ->
                            AuthSucceeded(session, l, a.existingGistId)
                       [] OTHER -> AuthSucceeded(session, l, "g2")
            /\ IF session'.login[l].settled = "rejected"
               THEN itemsCache' = NullCache /\ cacheTimestamp' = 0
               ELSE UNCHANGED <<itemsCache, cacheTimestamp>>
    /\ UNCHANGED <<scanner, backend, store, content, now, calls, issued>>

\* getAllItems while signed in
CallSessionRead ==
    /\ isAuthenticated
    /\ CallGetAllItems

\* getAllItems while the token or the gist id is missing: the cache is
\* returned while it is valid; otherwise 'Not authenticated' is thrown
\* before a request is sent, and caught like a failed request
ReadSignedOut ==
    /\ ~isAuthenticated
    /\ issued < MaxCalls
    /\ \E forceRefresh \in BOOLEAN :
        LET c == BeginGetAll([IdleCall EXCEPT !.op = "getAllItems"],
                             forceRefresh, itemsCache, cacheTimestamp)
        IN  calls' = Issue(IF c.pc = "fetch"
                           THEN [c EXCEPT !.pc = "fetched", !.ok = FALSE]
                           ELSE c)
    /\ issued' = issued + 1
    /\ UNCHANGED <<session, scanner, backend, store, content, itemsCache,
                   cacheTimestamp, now>>

InitSession ==
    /\ backend = "gist"
    /\ store = <<Seed(1, RawInt(1))>>
    /\ content = "array"
    /\ itemsCache = NullCache
    /\ cacheTimestamp = 0
    /\ now = 1
    /\ calls = [s \in Slots |-> IdleCall]
    /\ issued = 0
    /\ scanner = NoScanner
    /\ session \in {SignedIn, SignedOut}

NextSession ==
    \/ Logout
    \/ \E l \in Slots : AuthStart(l)
    \/ \E l \in Slots : AuthReply(l)
    \/ CallSessionRead
    \/ ReadSignedOut
    \/ \E s \in Slots : Then(s)
    \/ \E s \in Slots : Reply(s)
    \/ \E s \in Slots : Resume(s)

SpecSession == InitSession /\ [][NextSession]_vars

(***************************************************************************)
(* A scanned code is resolved in the gist backend while a record with that *)
(* code is added and the cache ages.                                       *)
(***************************************************************************)
\* the item form as handleBarcodeDetected fills it for an unknown code
ScannedDrafts ==
    {[id |-> NoId, barcode |-> code, stockNumber |-> Str(<<"b">>),
      supplier |-> Str(<<"b">>), description |-> Str(<<"a">>),
      costPrice |-> RawInt(1), sellingPrice |-> RawInt(1),
      quantity |-> RawInt(1)] : code \in {Str(<<"1">>), Str(<<"a">>)}}

CallAddScanned == \E arg \in ScannedDrafts : Call("addItem", arg)

InitResolve ==
    /\ Loaded({<<>>, <<Seed(2, RawInt(1))>>})
    /\ backend = "gist"

NextResolve ==
    \/ CallHandleBarcodeDetected
    \/ CallAddScanned
    \/ Tick
    \/ \E s \in Slots : Then(s)
    \/ \E s \in Slots : Reply(s)
    \/ \E s \in Slots : Resume(s)
    \/ \E s \in Slots : Patch(s)
    \/ \E s \in Slots : Finish(s)

SpecResolve == InitResolve /\ [][NextResolve]_vars

(***************************************************************************)
(* Properties.                                                             *)
(***************************************************************************)
\* the removeStock calls (direct or from the sale form) whose getAllItems
\* returned items, once they have settled
SettledRemovals ==
    {s \in Slots : /\ calls[s].op = "removeStock"
                   /\ calls[s].pc = "done"
                   /\ calls[s].src # "none"}

\* the item a removeStock call found in the items it read
Target(c) == FindById(c.items, c.arg.id)

\* the call rejected because its write failed
WriteFailed(c) == c.settled = "rejected" /\ c.out.write /\ ~c.wrote

\* the call returned a refusal with this reason, and saved nothing
Refused(c, error) ==
    /\ c.settled = "resolved"
    /\ c.ret.kind = "result"
    /\ ~c.ret.success
    /\ c.ret.error = error
    /\ ~c.out.write
    /\ ~c.wrote

\* C1: every persisted record has a quantity that is an integer >= 0.
C1_QuantityNonNegative ==
    \A i \in 1..Len(store) : IsNum(store[i].quantity) /\ store[i].quantity.v >= 0

\* C2: removeStock(id, q) with q greater than the quantity of the item it
\* read returns InsufficientStock reporting that quantity and writes nothing.
C2_InsufficientStockRejected ==
    \A s \in SettledRemovals :
        LET c == calls[s] IN
        (/\ Target(c) # NoItem
         /\ c.arg.quantity.t = "int"
         /\ IsNum(Target(c).quantity)
         /\ c.arg.quantity.v > Target(c).quantity.v)
        => /\ Refused(c, "Not enough stock")
           /\ c.ret.available = Target(c).quantity

\* what a getItemById called in this state returns, the store answering
GetItemByIdIn(b, held, cache, timestamp, clock, id) ==
    IF /\ b = "gist"
       /\ ~cache.null /\ timestamp # 0
       /\ (clock - timestamp) < CACHE_DURATION
    THEN FindById(cache.items, id)
    ELSE FindById(held, id)

\* the step in which removeStock call s returns, having read an item with
\* 0 < q <= quantity
ReturnsFromDecrement(s) ==
    LET c == calls'[s] IN
    /\ calls[s].pc # "done"
    /\ c.pc = "done"
    /\ c.op = "removeStock"
    /\ c.src # "none"
    /\ Target(c) # NoItem
    /\ c.arg.quantity.t = "int"
    /\ IsNum(Target(c).quantity)
    /\ 0 < c.arg.quantity.v
    /\ c.arg.quantity.v <= Target(c).quantity.v

\* the call returned Success with removed = q and the item decremented by q
DecrementedBy(c) ==
    /\ c.settled = "resolved"
    /\ c.ret.success
    /\ c.ret.removed = c.arg.quantity.v
    /\ c.ret.item.id = c.arg.id
    /\ c.ret.item.quantity = Num(Target(c).quantity.v - c.arg.quantity.v)
    /\ c.wrote

\* C3 as stated: removeStock(id, q) with 0 < q <= quantity returns Success
\* with removed = q and the item with quantity - q, and the getItemById that
\* follows its return gets that same quantity (the promise rejects instead
\* when the write fails).
C3_AsStated ==
    [][\A s \in Slots :
        ReturnsFromDecrement(s) =>
            \/ WriteFailed(calls'[s])
            \/ /\ DecrementedBy(calls'[s])
               /\ GetItemByIdIn(backend', store', itemsCache', cacheTimestamp',
                                now', calls'[s].arg.id).quantity
                    = calls'[s].ret.item.quantity
      ]_vars

\* C3: removeStock(id, q) with 0 < q <= quantity returns Success with
\* removed = q and the item with the quantity it read minus q (the promise
\* rejects instead when the write fails); when no other mutating call
\* overlapped it, the getItemById that follows its return gets that same
\* quantity.
C3_RemoveStockDecrements ==
    [][\A s \in Slots :
        ReturnsFromDecrement(s) =>
            \/ WriteFailed(calls'[s])
            \/ /\ DecrementedBy(calls'[s])
               /\ ~calls'[s].overlapped =>
                    GetItemByIdIn(backend', store', itemsCache', cacheTimestamp',
                                  now', calls'[s].arg.id).quantity
                        = calls'[s].ret.item.quantity
      ]_vars

\* a removeStock succeeded with a positive amount and a later getItemById
\* returned the item with the quantity it reported
C3_Witness ==
    \E s, t \in Slots :
        /\ s < t
        /\ s \in SettledRemovals
        /\ calls[s].ret.success
        /\ calls[s].ret.removed > 0
        /\ ~calls[s].overlapped
        /\ calls[t].op = "getItemById"
        /\ calls[t].pc = "done"
        /\ calls[t].ret.kind = "item"
        /\ calls[t].ret.item.id = calls[s].arg.id
        /\ calls[t].ret.item.quantity = calls[s].ret.item.quantity

\* C4: the outcome of removeStock is decided in this order from the item
\* read and the quantity asked: unknown id -> NotFound; else a quantity that
\* parses to <= 0 -> InvalidQuantity; else more than the stock ->
\* InsufficientStock; else Success (or the failure of the write).
C4_RemoveStockOrder ==
    \A s \in SettledRemovals :
        LET c == calls[s]
            removeQty == OrZero(ParseInt(c.arg.quantity))
        IN  CASE Target(c) = NoItem -> Refused(c, "Item not found")
              [] removeQty <= 0 -> Refused(c, "Invalid quantity")
              [] JsLess(Target(c).quantity, Num(removeQty)) ->
                    Refused(c, "Not enough stock")
              [] OTHER -> \/ WriteFailed(c)
                          \/ c.settled = "resolved" /\ c.ret.success /\ c.wrote

\* NotFound was returned for a quantity that is invalid too, and
\* InvalidQuantity for an item that has no stock either
C4_Witness ==
    /\ \E s \in SettledRemovals :
            /\ Refused(calls[s], "Item not found")
            /\ OrZero(ParseInt(calls[s].arg.quantity)) <= 0
    /\ \E s \in SettledRemovals :
            /\ Refused(calls[s], "Invalid quantity")
            /\ JsLess(Target(calls[s]).quantity, Num(1))

\* C5: NotFound, InvalidQuantity and InsufficientStock are resolved values
\* with success = false and a reason (shown by the sale form as they are); a
\* removeStock rejects only when the read or the write of the store failed.
C5_RefusalsResolve ==
    \A s \in Slots :
        LET c == calls[s]
            removeQty == OrZero(ParseInt(c.arg.quantity))
        IN  (c.op = "removeStock" /\ c.pc = "done") =>
            /\ c.settled \in {"resolved", "rejected"}
            /\ c.settled = "rejected" => (c.src = "none" \/ WriteFailed(c))
            /\ (/\ c.src # "none"
                /\ \/ Target(c) = NoItem
                   \/ removeQty <= 0
                   \/ JsLess(Target(c).quantity, Num(removeQty)))
               => /\ c.settled = "resolved"
                  /\ ~c.ret.success
                  /\ c.ret.error \in
                        {"Item not found", "Invalid quantity", "Not enough stock"}
                  /\ c.app = "processSale" => c.toast = c.ret.error

\* the sale form received a refusal as a value, and some removeStock was
\* rejected by a store failure
C5_Witness ==
    /\ \E s \in SettledRemovals :
            /\ calls[s].app = "processSale"
            /\ calls[s].settled = "resolved"
            /\ ~calls[s].ret.success
    /\ \E s \in Slots :
            /\ calls[s].op = "removeStock"
            /\ calls[s].pc = "done"
            /\ calls[s].settled = "rejected"

\* the lookups whose getItemByBarcode got items, once finished
Lookups ==
    {s \in Slots : /\ calls[s].app = "handleBarcodeDetected"
                   /\ calls[s].pc = "done"
                   /\ calls[s].settled = "resolved"}

\* the positions in items of the records whose barcode is the code
ExactAt(items, code) == {i \in 1..Len(items) : items[i].barcode = code}

\* C6: when some record's barcode equals the code, handleBarcodeDetected
\* shows that record as the exact match and never calls searchItems,
\* whatever searchItems would return for the code.
C6_ExactMatchFirst ==
    \A s \in Lookups :
        LET c == calls[s]
            at == ExactAt(c.looked, c.arg.barcode)
        IN  at # {} =>
            /\ c.resolution.kind = "ExactMatch"
            /\ c.resolution.item \in {c.looked[i] : i \in at}
            /\ c.resolution.item.barcode = c.arg.barcode
            /\ c.op = "getItemByBarcode"
            /\ c.ret = RetItem(c.resolution.item)

\* an exact match was shown for a code that searchItems finds in more
\* records than that one
C6_Witness ==
    \E s \in Lookups :
        /\ calls[s].resolution.kind = "ExactMatch"
        /\ Len(Search(calls[s].looked, calls[s].arg.barcode)) > 1

\* C7: when no record's barcode equals the code, handleBarcodeDetected
\* shows the single record searchItems returned, or lists all of them when
\* there are several, or offers the new-item form with the code as barcode
\* when there are none; a lookup that read the store ends in exactly one of
\* the four outcomes.
C7_SearchFallback ==
    \A s \in Lookups :
        LET c == calls[s]
            found == Search(c.items, c.arg.barcode)
        IN  /\ c.resolution.kind \in
                    {"ExactMatch", "SingleMatch", "MultipleMatches", "NoMatch"}
            /\ c.resolution.kind = "ExactMatch"
                    <=> ExactAt(c.looked, c.arg.barcode) # {}
            /\ ExactAt(c.looked, c.arg.barcode) = {} =>
                /\ c.op = "searchItems"
                /\ c.ret = RetList(found)
                /\ CASE Len(found) = 1 ->
                            /\ c.resolution.kind = "SingleMatch"
                            /\ c.resolution.item = found[1]
                     [] Len(found) > 1 ->
                            /\ c.resolution.kind = "MultipleMatches"
                            /\ c.resolution.items = found
                     [] OTHER ->
                            /\ c.resolution.kind = "NoMatch"
                            /\ c.resolution.prefill = c.arg.barcode

\* with no exact match, one lookup found several records and another one
\* found none and offered the form
C7_Witness ==
    /\ \E s \in Lookups :
            /\ calls[s].resolution.kind = "MultipleMatches"
            /\ Len(calls[s].resolution.items) = 2
    /\ \E s \in Lookups :
            /\ calls[s].resolution.kind = "NoMatch"
            /\ calls[s].looked # <<>>

\* C8: processSale calls removeStock only when the text of the quantity
\* field is a positive integer.
C8_SaleQuantityChecked ==
    \A s \in Slots :
        (calls[s].app = "processSale" /\ calls[s].op = "removeStock")
        => (calls[s].form.t = "int" /\ calls[s].form.v >= 1)

\* C9: a removeStock call is not serialized with the others: its write
\* replaces the item's stored quantity by the quantity it read itself minus
\* what it removes, whatever the store holds by then.
C9_BlindWrite ==
    [][\A s \in Slots :
        (/\ calls'[s].op = "removeStock"
         /\ ~calls[s].wrote
         /\ calls'[s].wrote)
        => /\ store' = Json(calls'[s].out.items)
           /\ FindById(store', calls'[s].arg.id).quantity =
                Num(Target(calls'[s]).quantity.v - calls'[s].out.ret.removed)
      ]_vars

\* two overlapping removeStock calls read the same quantity of the same
\* item, both returned Success, and together they report more removed than
\* the stored quantity went down
C9_Witness ==
    \E s, t \in SettledRemovals :
        /\ s # t
        /\ calls[s].overlapped /\ calls[t].overlapped
        /\ calls[s].arg.id = calls[t].arg.id
        /\ calls[s].ret.success /\ calls[t].ret.success
        /\ Target(calls[s]).quantity = Target(calls[t]).quantity
        /\ FindById(store, calls[s].arg.id) # NoItem
        /\ calls[s].ret.removed + calls[t].ret.removed >
                Target(calls[s]).quantity.v
                    - FindById(store, calls[s].arg.id).quantity.v

\* C10: in the gist backend every mutating operation computes from the
\* content the store returned to its own forced read, never from the cache,
\* and when its write has succeeded the cache holds the collection written.
C10_FreshReadThenCacheOverwritten ==
    [][\A s \in Slots :
        LET c == calls'[s] IN
        (backend = "gist" /\ c.op \in MutatingOps) =>
            /\ (calls[s].pc = "fetched" /\ c.pc # "fetched" /\ c.src # "none")
                    => c.src = "store"
            /\ (calls[s].pc = "saved" /\ c.pc = "done" /\ c.settled = "resolved")
                    => itemsCache' = Cache(c.out.items)
      ]_vars

\* call s is made in this step
Called(s) == calls[s].pc = "idle" /\ calls'[s].pc # "idle"

\* C11: gist getAllItems without forceRefresh sends no GET and returns the
\* cached items when there is a cache younger than 30 seconds; when the
\* cache is older or missing, or with forceRefresh, it sends the GET and,
\* once the GET has answered, the cache is the content read and its
\* timestamp the time of that.
C11_CacheWindow ==
    [][\A s \in Slots :
        LET c == calls'[s]
            young == /\ ~itemsCache.null
                     /\ cacheTimestamp # 0
                     /\ now - cacheTimestamp < 30000
        IN  (backend = "gist" /\ c.op = "getAllItems") =>
            /\ (Called(s) /\ young /\ ~c.forceRefresh) =>
                    /\ c.pc = "then"
                    /\ c.src = "cache"
                    /\ c.items = itemsCache.items
            /\ (Called(s) /\ (~young \/ c.forceRefresh)) => c.pc = "fetch"
            /\ (calls[s].pc = "then" /\ c.pc # "then") =>
                    /\ c.settled = "resolved"
                    /\ c.ret = RetList(calls[s].items)
                    /\ UNCHANGED <<itemsCache, cacheTimestamp>>
            /\ (calls[s].pc = "fetched" /\ calls[s].ok /\ c.pc # "fetched") =>
                    /\ itemsCache' = Cache(calls[s].items)
                    /\ cacheTimestamp' = now
                    /\ c.settled = "resolved"
                    /\ c.ret = RetList(calls[s].items)
      ]_vars

\* a getAllItems() was answered by a cache that differs from the store, and
\* a later getAllItems(), made when the window had elapsed, read the store
C11_Witness ==
    \E s, t \in Slots :
        /\ s < t
        /\ calls[s].op = "getAllItems" /\ calls[t].op = "getAllItems"
        /\ calls[s].pc = "done" /\ calls[t].pc = "done"
        /\ ~calls[s].forceRefresh /\ ~calls[t].forceRefresh
        /\ calls[s].src = "cache"
        /\ calls[s].ret.list # store
        /\ calls[t].src = "store"
        /\ calls[t].ret.list = store
        /\ itemsCache = Cache(store)
        /\ cacheTimestamp > 30000

\* C12: a gist read whose GET failed returns the cached items when there is
\* a cache and rejects otherwise; the cache stays as it was.
C12_FetchFailureFallback ==
    [][\A s \in Slots :
        LET c == calls'[s] IN
        (/\ backend = "gist"
         /\ c.op \in {"getAllItems", "getItemById"}
         /\ calls[s].pc = "fetched" /\ ~calls[s].ok
         /\ c.pc # "fetched")
        => /\ UNCHANGED <<itemsCache, cacheTimestamp, store>>
           /\ IF itemsCache.null
              THEN c.pc = "done" /\ c.settled = "rejected"
              ELSE /\ c.pc = "done" /\ c.settled = "resolved"
                   /\ c.src = "cache"
                   /\ c.ret = ReadResult(c.op, itemsCache.items, c.arg)
      ]_vars

\* a getAllItems whose GET failed returned the items of the cache
C12_Witness ==
    \E s \in Slots :
        /\ calls[s].op = "getAllItems"
        /\ calls[s].pc = "done"
        /\ calls[s].settled = "resolved"
        /\ ~calls[s].ok
        /\ calls[s].src = "cache"
        /\ calls[s].ret.list = itemsCache.items
        /\ calls[s].ret.list # <<>>

\* C13: when the write of addItem, updateItem, removeStock or deleteItem
\* fails, the operation rejects and leaves the stored collection as it was,
\* and the gist cache is not set to the items that were not written.
C13_FailedWriteLeavesNothing ==
    [][\A s \in Slots :
        LET c == calls'[s] IN
        (c.op \in MutatingOps /\ c.out.write) =>
            /\ (calls[s].pc \in {"then", "saving"} /\ c.pc = "saved" /\ ~c.ok) =>
                    /\ UNCHANGED <<store, content, itemsCache, cacheTimestamp>>
                    /\ ~c.wrote
            /\ (calls[s].pc = "saved" /\ ~calls[s].ok /\ c.pc # "saved") =>
                    /\ c.pc = "done"
                    /\ c.settled = "rejected"
                    /\ UNCHANGED <<store, content, itemsCache, cacheTimestamp>>
      ]_vars

\* a gist operation was rejected because its PATCH failed, and the store
\* and the cache still hold the items it had read, not those it computed
C13_Witness ==
    \E s \in Slots :
        /\ backend = "gist"
        /\ calls[s].op \in MutatingOps
        /\ calls[s].pc = "done"
        /\ calls[s].settled = "rejected"
        /\ calls[s].out.write /\ ~calls[s].wrote
        /\ calls[s].out.items # calls[s].items
        /\ store = calls[s].items
        /\ itemsCache = Cache(calls[s].items)

\* C14: the promise of every operation settles, and it does not resolve
\* when the operation's write failed.
C14_EveryPromiseSettles ==
    /\ \A s \in Slots : (calls[s].pc # "idle") ~> (calls[s].pc = "done")
    /\ [](\A s \in Slots :
            (calls[s].pc = "done" /\ calls[s].out.write /\ ~calls[s].wrote)
                => calls[s].settled = "rejected")

\* C15: when the stored text is missing, no JSON or no array, getAllItems
\* (local, or gist once the GET has answered) resolves with no items.
C15_UnreadableReadsEmpty ==
    \A s \in Slots :
        LET c == calls[s] IN
        (/\ c.op = "getAllItems"
         /\ c.pc = "done"
         /\ content # "array"
         /\ backend = "gist" => (c.ok /\ c.body = content))
        => /\ c.settled = "resolved"
           /\ c.ret = RetList(<<>>)

\* C16: importData of text that is no JSON array rejects at once with a
\* format error and leaves store and cache as they were; importData of an
\* array stores exactly the decoded array in its one write, and when it
\* resolves it returns the array's length (gist: the cache then holds the
\* array).
C16_ImportReplacesWhole ==
    [][\A s \in Slots :
        LET c == calls[s]
            d == calls'[s]
        IN  d.op = "importData" =>
            /\ (c.pc = "idle" /\ d.payload.kind # "array") =>
                    /\ d.pc = "done"
                    /\ d.settled = "rejected"
                    /\ d.ret \in {RetError("SyntaxError"),
                                  RetError("Invalid data format")}
                    /\ UNCHANGED <<store, content, itemsCache, cacheTimestamp>>
            /\ (~c.wrote /\ d.wrote) =>
                    /\ d.payload.kind = "array"
                    /\ store' = d.payload.items
                    /\ content' = "array"
            /\ (c.pc # "done" /\ d.pc = "done" /\ d.settled = "resolved") =>
                    /\ d.wrote
                    /\ d.ret = RetCount(Len(d.payload.items))
                    /\ backend = "gist" => itemsCache' = Cache(d.payload.items)
      ]_vars

\* one import replaced the stored item by the payload's other item and
\* returned 1, and an import of a JSON object was rejected
C16_Witness ==
    \E s, t \in Slots :
        /\ calls[s].op = "importData"
        /\ calls[s].settled = "resolved"
        /\ calls[s].ret = RetCount(1)
        /\ store = calls[s].payload.items
        /\ store = <<Seed(2, RawInt(1))>>
        /\ calls[t].op = "importData"
        /\ calls[t].settled = "rejected"
        /\ calls[t].ret = RetError("Invalid data format")

\* C17: when importData is given the text that an exportData call returned,
\* its write leaves the store equal to the items that exportData had read,
\* and it resolves with their number.
C17_RoundTrip ==
    [][\A s, t \in Slots :
        LET c == calls[s]
            d == calls'[s]
            e == calls[t]
        IN  (/\ d.op = "importData"
             /\ e.op = "exportData" /\ e.pc = "done" /\ e.settled = "resolved"
             /\ d.payload = e.ret.text)
            => /\ (~c.wrote /\ d.wrote) => store' = e.items
               /\ (c.pc # "done" /\ d.pc = "done" /\ d.settled = "resolved") =>
                        d.ret = RetCount(Len(e.items))
      ]_vars

\* the addItem call in slot s returns in this step
ReturnsFromAdd(s) ==
    /\ calls[s].pc # "done"
    /\ calls'[s].pc = "done"
    /\ calls'[s].op = "addItem"
    /\ calls'[s].out.write

\* the record returned by addItem carries the draft's fields, coerced
AddedFromDraft(c) ==
    /\ c.settled = "resolved"
    /\ c.ret.kind = "item"
    /\ c.ret.item.barcode = OrElse(c.arg.barcode, NullStr)
    /\ c.ret.item.stockNumber = c.arg.stockNumber
    /\ c.ret.item.supplier = c.arg.supplier
    /\ c.ret.item.description = c.arg.description
    /\ c.ret.item.costPrice = Num(OrZero(ParseFloat(c.arg.costPrice)))
    /\ c.ret.item.sellingPrice = Num(OrZero(ParseFloat(c.arg.sellingPrice)))
    /\ c.ret.item.quantity = Num(OrZero(ParseInt(c.arg.quantity)))

UpdatesRecord(c) ==
    /\ c.op = "updateItem"
    /\ c.pc \in {"saving", "saved", "done"}
    /\ c.src # "none"
    /\ FindById(c.items, c.arg.id) # NoItem

\* a text field keeps the prior value when the patch has none or an empty one
Kept(patch, prior) ==
    IF patch.t = "str" /\ Len(patch.s) > 0 THEN patch ELSE prior

\* C19: updateItem of a stored record keeps barcode, stockNumber, supplier
\* and description when the patch's field is absent or empty and takes the
\* patch's otherwise; costPrice, sellingPrice and quantity keep the prior
\* value when absent and otherwise take the parsed value of the patch's,
\* 0 included (not-a-number when it has no leading number); the other
\* records are as read.
C19_UpdateOverlay ==
    \A s \in Slots :
        LET c == calls[s]
            i == FindIndex(c.items, c.arg.id)
            old == c.items[i]
            new == c.out.items[i]
        IN  UpdatesRecord(c) =>
            /\ c.out.write
            /\ Len(c.out.items) = Len(c.items)
            /\ \A j \in 1..Len(c.items) : j # i => c.out.items[j] = c.items[j]
            /\ new.id = old.id /\ new.createdAt = old.createdAt
            /\ new.barcode = Kept(c.arg.barcode, old.barcode)
            /\ new.stockNumber = Kept(c.arg.stockNumber, old.stockNumber)
            /\ new.supplier = Kept(c.arg.supplier, old.supplier)
            /\ new.description = Kept(c.arg.description, old.description)
            /\ new.costPrice = CASE c.arg.costPrice.t = "undef" -> old.costPrice
                                  [] c.arg.costPrice.t = "int" ->
                                        Num(2 * c.arg.costPrice.v)
                                  [] c.arg.costPrice.t = "frac" ->
                                        Num(2 * c.arg.costPrice.v + 1)
                                  [] OTHER -> NaN
            /\ new.sellingPrice = CASE c.arg.sellingPrice.t = "undef" -> old.sellingPrice
                                     [] c.arg.sellingPrice.t = "int" ->
                                            Num(2 * c.arg.sellingPrice.v)
                                     [] c.arg.sellingPrice.t = "frac" ->
                                            Num(2 * c.arg.sellingPrice.v + 1)
                                     [] OTHER -> NaN
            /\ new.quantity = CASE c.arg.quantity.t = "undef" -> old.quantity
                                 [] c.arg.quantity.t = "int" -> Num(c.arg.quantity.v)
                                 [] c.arg.quantity.t = "frac" ->
                                        Num(IF c.arg.quantity.v >= 0
                                            THEN c.arg.quantity.v
                                            ELSE c.arg.quantity.v + 1)
                                 [] OTHER -> NaN
            /\ (c.pc = "done" /\ c.settled = "resolved") => c.ret = RetItem(new)

\* an update with empty texts and zero numbers resolved: the record it
\* returned has the texts it read and the numbers 0, and that was stored
C19_Witness ==
    \E s \in Slots :
        LET c == calls[s] IN
        /\ UpdatesRecord(c)
        /\ c.pc = "done" /\ c.settled = "resolved"
        /\ c.arg.description = Str(<<>>)
        /\ c.arg.quantity = RawInt(0)
        /\ c.ret.item.description = FindById(c.items, c.arg.id).description
        /\ c.ret.item.description # Str(<<>>)
        /\ FindById(c.items, c.arg.id).quantity = Num(MaxQty)
        /\ c.ret.item.quantity = Num(0)
        /\ FindById(store, c.arg.id) = c.ret.item

\* C20: when updateItem has read a collection that holds no record with the
\* patch's id, it resolves with null in that same step without a write: it
\* computes no new collection, sends no PATCH, and the store is as before.
C20_UpdateUnknownId ==
    [][\A s \in Slots :
        LET c == calls[s]
            d == calls'[s]
        IN  (/\ d.op = "updateItem"
             /\ c.pc \in {"then", "fetched"}
             /\ d.pc # c.pc
             /\ d.src # "none"
             /\ FindById(d.items, d.arg.id) = NoItem)
            => /\ d.pc = "done"
               /\ d.settled = "resolved"
               /\ d.ret = RetNull
               /\ ~d.out.write /\ ~d.wrote
               /\ d.out.items = d.items
               /\ UNCHANGED <<store, content>>
      ]_vars

\* an update of an id that no record has resolved with null, and the store
\* still holds exactly the record it held at the start
C20_Witness ==
    \E s \in Slots :
        /\ calls[s].op = "updateItem"
        /\ calls[s].arg.id = MissingId
        /\ calls[s].arg.quantity = RawInt(0)
        /\ calls[s].pc = "done"
        /\ calls[s].settled = "resolved"
        /\ calls[s].ret = RetNull
        /\ store = <<Seed(1, RawInt(MaxQty))>>

\* the records of a sequence
Records(items) == {items[i] : i \in 1..Len(items)}

\* the updateItem or removeStock call c has computed the collection it is
\* going to write, or has written
Rewrites(c) ==
    /\ c.op \in {"updateItem", "removeStock"}
    /\ c.pc \in {"saving", "saved", "done"}
    /\ c.out.write

\* C21: the collection that updateItem or removeStock writes has, place by
\* place, the ids and createdAt of the collection it read, whatever the
\* patch carries; and every stored or cached record has the createdAt of
\* the moment its id was generated.
C21_IdAndCreatedAtKept ==
    /\ \A s \in Slots :
            Rewrites(calls[s]) =>
                /\ Len(calls[s].out.items) = Len(calls[s].items)
                /\ \A i \in 1..Len(calls[s].items) :
                        /\ calls[s].out.items[i].id = calls[s].items[i].id
                        /\ calls[s].out.items[i].createdAt
                                = calls[s].items[i].createdAt
    /\ \A it \in Records(store) \cup Records(itemsCache.items) :
            it.createdAt = it.id[1]

\* a record added after the clock had advanced was then updated with a
\* patch carrying another createdAt, and is stored with the createdAt of
\* its addition
C21_Witness ==
    \E s \in Slots, i \in 1..Len(store) :
        /\ Rewrites(calls[s])
        /\ calls[s].op = "updateItem"
        /\ calls[s].pc = "done" /\ calls[s].settled = "resolved"
        /\ "createdAt" \in DOMAIN calls[s].arg
        /\ store[i] = calls[s].ret.item
        /\ store[i].updatedAt > store[i].createdAt
        /\ store[i].createdAt # calls[s].arg.createdAt

\* C22: every stored record has updatedAt >= createdAt, and the record that
\* updateItem or removeStock rewrites gets an updatedAt strictly greater
\* than the one it had.
C22_UpdatedAtAdvances ==
    /\ \A it \in Records(store) : it.updatedAt >= it.createdAt
    /\ \A s \in Slots :
            LET c == calls[s]
                i == FindIndex(c.items, c.arg.id)
            IN  Rewrites(c) => c.out.items[i].updatedAt > c.items[i].updatedAt

\* a and b are the same record but for quantity and updatedAt
SameButStock(a, b) ==
    a = [b EXCEPT !.quantity = a.quantity, !.updatedAt = a.updatedAt]

\* C23: the write of a successful removeStock stores the collection it
\* read with the same number and order of records, every record but the
\* target as it was read, and the target differing in quantity and
\* updatedAt only; the item it returns differs from the one read in those
\* two fields only.
C23_RemoveStockFrame ==
    [][\A s \in Slots :
        LET c == calls[s]
            d == calls'[s]
            i == FindIndex(d.items, d.arg.id)
        IN  (d.op = "removeStock" /\ d.out.write) =>
            /\ (~c.wrote /\ d.wrote) =>
                    /\ Len(store') = Len(d.items)
                    /\ \A j \in 1..Len(d.items) :
                            IF j = i
                            THEN SameButStock(store'[j], JsonItem(d.items[j]))
                            ELSE store'[j] = JsonItem(d.items[j])
            /\ (c.pc # "done" /\ d.pc = "done" /\ d.settled = "resolved") =>
                    /\ d.ret.success
                    /\ SameButStock(d.ret.item, d.items[i])
      ]_vars

\* a removeStock on a collection of two records succeeded, and the store
\* holds the other record as it was read and the target with less stock
C23_Witness ==
    \E s \in Slots :
        LET c == calls[s]
            i == FindIndex(c.items, c.arg.id)
        IN  /\ c.op = "removeStock"
            /\ c.pc = "done" /\ c.settled = "resolved"
            /\ c.ret.success
            /\ Len(c.items) = 2 /\ Len(store) = 2
            /\ store[3 - i] = c.items[3 - i]
            /\ store[i] = c.ret.item
            /\ store[i].quantity # c.items[i].quantity

\* C24: deleteItem that read a collection holding the id writes that
\* collection without the records of that id, the others as read and in
\* their order, and resolves with true (or rejects when the write fails);
\* deleteItem that read a collection without the id resolves with false in
\* that same step and writes nothing.
C24_DeleteItem ==
    [][\A s \in Slots :
        LET c == calls[s]
            d == calls'[s]
            held == FindById(d.items, d.arg.id) # NoItem
        IN  (d.op = "deleteItem" /\ d.src # "none") =>
            /\ (c.pc \in {"then", "fetched"} /\ d.pc # c.pc /\ ~held) =>
                    /\ d.pc = "done"
                    /\ d.settled = "resolved"
                    /\ d.ret = RetBool(FALSE)
                    /\ ~d.wrote
                    /\ UNCHANGED <<store, content>>
            /\ (~c.wrote /\ d.wrote) =>
                    /\ held
                    /\ store' = Json(SelectSeq(d.items,
                                               LAMBDA it : it.id # d.arg.id))
            /\ (c.pc # "done" /\ d.pc = "done" /\ d.settled = "resolved") =>
                    /\ d.ret = RetBool(held)
                    /\ d.wrote = held
            /\ (c.pc # "done" /\ d.pc = "done" /\ d.settled = "rejected") =>
                    held /\ ~d.wrote
      ]_vars

\* a deleteItem on a collection of two records resolved with true, and the
\* store holds the other record only
C24_Witness ==
    \E s \in Slots :
        LET c == calls[s]
            i == FindIndex(c.items, c.arg.id)
        IN  /\ c.op = "deleteItem"
            /\ c.pc = "done" /\ c.settled = "resolved"
            /\ c.ret = RetBool(TRUE)
            /\ Len(c.items) = 2
            /\ store = <<c.items[3 - i]>>

\* C25: no two records of the stored collection have the same id.
C25_UniqueIds ==
    \A i, j \in 1..Len(store) : i # j => store[i].id # store[j].id

\* the read of call c has been answered and c has returned
Answered(c) == c.pc = "done" /\ c.src # "none"

\* text s, in lower case, holds text sub
Holds(s, sub) ==
    \E i \in 0..(Len(s) - Len(sub)) :
        \A k \in 1..Len(sub) :
            (IF s[i + k] = "A" THEN "a" ELSE s[i + k]) = sub[k]

\* one of the four texts of the record holds the term; a null barcode
\* holds nothing
HoldsTerm(it, term) ==
    \/ Holds(it.description.s, term)
    \/ Holds(it.stockNumber.s, term)
    \/ Holds(it.supplier.s, term)
    \/ (it.barcode.t = "str" /\ Holds(it.barcode.s, term))

\* the query is a text with something else than blanks in it
NonBlank(query) ==
    query.t = "str" /\ \E k \in 1..Len(query.s) : query.s[k] # " "

\* C26 as stated: searchItems with a non-empty query resolves with exactly
\* the records read of which description, stockNumber, supplier or a
\* non-null barcode holds the query, letter case aside.
C26_AsStated ==
    \A s \in Slots :
        LET c == calls[s] IN
        (c.op = "searchItems" /\ Answered(c) /\ NonBlank(c.arg.barcode)) =>
            /\ c.settled = "resolved"
            /\ c.ret = RetList(SelectSeq(c.items,
                    LAMBDA it : HoldsTerm(it, toLowerCase(c.arg.barcode.s))))

\* C26: searchItems with a query that is not blank resolves with exactly
\* the records read, in their order, of which description, stockNumber,
\* supplier or a non-null barcode holds the query stripped of the blanks
\* around it, letter case aside.
C26_SearchMatches ==
    \A s \in Slots :
        LET c == calls[s] IN
        (c.op = "searchItems" /\ Answered(c) /\ NonBlank(c.arg.barcode)) =>
            /\ c.settled = "resolved"
            /\ c.ret = RetList(SelectSeq(c.items,
                    LAMBDA it : HoldsTerm(it, trim(toLowerCase(c.arg.barcode.s)))))

\* a search for "A" returned the record with a null barcode, found by its
\* description, and left out a record that holds no "a"
C26_Witness ==
    \E s \in Slots :
        LET c == calls[s] IN
        /\ c.op = "searchItems" /\ Answered(c)
        /\ c.arg.barcode = Str(<<"A">>)
        /\ c.ret.kind = "list"
        /\ \E k \in 1..Len(c.ret.list) : c.ret.list[k] = NoBarcodeItem
        /\ 0 < Len(c.ret.list) /\ Len(c.ret.list) < Len(c.items)

\* C27: searchItems with a query that is absent, empty or all blanks
\* resolves with no records whatever it read; getAllItems that read an
\* empty or absent store resolves with no records.
C27_BlankQueryAndEmptyStore ==
    \A s \in Slots :
        LET c == calls[s] IN
        /\ (c.op = "searchItems" /\ Answered(c) /\ ~NonBlank(c.arg.barcode)) =>
                c.settled = "resolved" /\ c.ret = RetList(<<>>)
        /\ (c.op = "getAllItems" /\ Answered(c) /\ c.items = <<>>) =>
                c.settled = "resolved" /\ c.ret = RetList(<<>>)

\* a search for blanks on a collection of three records returned nothing,
\* and a search for the empty text too
C27_Witness ==
    \E s, t \in Slots :
        /\ calls[s].op = "searchItems" /\ Answered(calls[s])
        /\ calls[s].arg.barcode = Str(<<" ", " ">>)
        /\ Len(calls[s].items) = 3
        /\ calls[s].ret = RetList(<<>>)
        /\ calls[t].op = "searchItems" /\ Answered(calls[t])
        /\ calls[t].arg.barcode = Str(<<>>)
        /\ calls[t].ret = RetList(<<>>)

\* C28: getItemByBarcode resolves with the first record read whose barcode
\* is a text equal to the argument, letter for letter, and with null when
\* there is none; the record it returns never has a null barcode.
C28_ExactBarcode ==
    \A s \in Slots :
        LET c == calls[s]
            equal == {i \in 1..Len(c.items) :
                        /\ c.items[i].barcode.t = "str"
                        /\ c.items[i].barcode = c.arg.barcode}
        IN  (c.op = "getItemByBarcode" /\ c.app = "" /\ Answered(c)) =>
            /\ c.settled = "resolved"
            /\ IF equal = {}
               THEN c.ret = RetNull
               ELSE \E i \in equal :
                        /\ c.ret = RetItem(c.items[i])
                        /\ \A j \in equal : i <= j

\* the number a field counts for in a sum: null counts for nothing
Amount(x) == IF IsNum(x) THEN x.v ELSE 0

\* the sum of the quantities of the first n records
RECURSIVE QuantitySum(_, _)
QuantitySum(items, n) ==
    IF n = 0 THEN 0 ELSE QuantitySum(items, n - 1) + Amount(items[n].quantity)

\* the sum of costPrice * quantity of the first n records
RECURSIVE ValueSum(_, _)
ValueSum(items, n) ==
    IF n = 0 THEN 0
    ELSE ValueSum(items, n - 1)
            + Amount(items[n].costPrice) * Amount(items[n].quantity)

\* C29: getStats resolves with totalItems = the number of records read,
\* lowStockItems = the number of those with 0 < quantity <= 5,
\* outOfStockItems = the number of those with quantity 0, their sum at most
\* totalItems, totalStock = the sum of the quantities and totalValue = the
\* sum of costPrice * quantity (a null quantity counts for 0 in the sums
\* and in neither count; a not-a-number quantity makes both sums
\* not-a-number).
C29_Stats ==
    \A s \in Slots :
        LET c == calls[s]
            n == Len(c.items)
            low == {i \in 1..n : /\ IsNum(c.items[i].quantity)
                                 /\ 0 < c.items[i].quantity.v
                                 /\ c.items[i].quantity.v <= 5}
            out == {i \in 1..n : /\ IsNum(c.items[i].quantity)
                                 /\ c.items[i].quantity.v = 0}
            unsummable == \E i \in 1..n : c.items[i].quantity = NaN
        IN  (c.op = "getStats" /\ Answered(c)) =>
            /\ c.settled = "resolved"
            /\ c.ret.kind = "stats"
            /\ c.ret.stats.totalItems = n
            /\ c.ret.stats.lowStockItems = Cardinality(low)
            /\ c.ret.stats.outOfStockItems = Cardinality(out)
            /\ c.ret.stats.lowStockItems + c.ret.stats.outOfStockItems
                    <= c.ret.stats.totalItems
            /\ c.ret.stats.totalStock =
                    IF unsummable THEN NaN ELSE Num(QuantitySum(c.items, n))
            /\ c.ret.stats.totalValue =
                    IF unsummable THEN NaN ELSE Num(ValueSum(c.items, n))

\* getStats on the records with quantities 0, 5 and 6 counted 3 records,
\* 11 in stock, one low and one out of stock
C29_Witness ==
    \E s \in Slots :
        LET c == calls[s] IN
        /\ c.op = "getStats" /\ Answered(c)
        /\ Len(c.items) = 3
        /\ c.ret.stats.totalItems = 3
        /\ c.ret.stats.totalStock = Num(11)
        /\ c.ret.stats.totalValue = Num(27)
        /\ c.ret.stats.lowStockItems = 1
        /\ c.ret.stats.outOfStockItems = 1

\* C30: in every Scanner module, a step that decodes a non-empty text while
\* the camera runs passes that text to the callback, and the lookup for it
\* starts.
C30_DetectionReachesCallback ==
    [][(/\ Len(scanner'.decoded) = Len(scanner.decoded) + 1
        /\ scanner.isRunning
        /\ Truthy(scanner'.decoded[Len(scanner'.decoded)]))
       => /\ scanner'.delivered
                = Append(scanner.delivered, scanner'.decoded[Len(scanner'.decoded)])
          /\ \E s \in Slots :
                /\ calls[s].pc = "idle"
                /\ calls'[s].app = "handleBarcodeDetected"
                /\ calls'[s].arg.barcode = scanner'.decoded[Len(scanner'.decoded)]
      ]_vars

\* C31: the callback that one start set is invoked at most once, also when
\* the decoder reports further texts before the scanner has stopped.
C31_OneCallbackPerStart ==
    scanner.invoked <= 1

\* C32: a step that handles a decoded text leaves the camera stopped or
\* stopping, and once the callback of a start has been invoked the camera
\* does not become active again before the next start.
C32_StoppedAfterDetection ==
    [][/\ (/\ Len(scanner'.decoded) = Len(scanner.decoded) + 1
           /\ ~Dropped(scanner, scanner'.decoded[Len(scanner'.decoded)]))
          => (~scanner'.isRunning \/ scanner'.stopping)
       /\ (scanner.invoked >= 1 /\ scanner'.invoked >= 1 /\ scanner'.isRunning)
          => scanner.isRunning
      ]_vars

\* C33: while another view than the scan view is shown the camera is not
\* active, or is being stopped.
C33_InactiveOutsideScanView ==
    scanner.view # "scan-view" => (~scanner.isRunning \/ scanner.stopping)

\* C34: at most one camera stream is open at any time.
C34_OneStreamOpen ==
    scanner.streams <= 1

\* C35: in the gist backend, once every call has completed and one of them
\* has written, the cache holds the collection that the store holds (as
\* the store holds it, that is after JSON.stringify).
C35_CacheEqualsStoreWhenQuiet ==
    (/\ backend = "gist"
     /\ \A s \in Slots : calls[s].pc \in {"idle", "done"}
     /\ \E s \in Slots : calls[s].op \in MutatingOps /\ calls[s].wrote)
    => /\ ~itemsCache.null
       /\ ~itemsCache.object
       /\ Json(itemsCache.items) = store

\* what handleBarcodeDetected decides for a code when both of its reads
\* return items
RoutingRule(items, code) ==
    Route(FindByBarcode(items, code),
          IF FindByBarcode(items, code) # NoItem THEN <<>> ELSE Search(items, code),
          code)

\* what the user is shown: the exact match and the single match both open
\* the detail of the record
Shown(resolution) ==
    IF resolution.kind = "SingleMatch"
    THEN [resolution EXCEPT !.kind = "ExactMatch"]
    ELSE resolution

\* C36: what a lookup shows is what the routing rule gives for one
\* collection: the one the barcode lookup read or the one the search read.
C36_OneViewOfCollection ==
    \A s \in Lookups :
        \/ Shown(calls[s].resolution)
                = Shown(RoutingRule(calls[s].looked, calls[s].arg.barcode))
        \/ Shown(calls[s].resolution)
                = Shown(RoutingRule(calls[s].items, calls[s].arg.barcode))

\* C37: while the session is signed out the cache is empty.
C37_NothingCachedAfterLogout ==
    ~isAuthenticated => itemsCache.null

\* C38: isAuthenticated() holds only with a token that GET /user has
\* accepted.
C38_OnlyVerifiedTokens ==
    isAuthenticated => session.token \in session.passed

\* C39: a read returns what the operation gives for the stored collection,
\* which is what it returns in the local backend, in both backends.
C39_ReadsAnswerFromStore ==
    [][\A s \in Slots :
        (/\ calls[s].pc # "done"
         /\ calls'[s].pc = "done"
         /\ calls'[s].op \in ReadOps)
        => /\ calls'[s].settled = "resolved"
           /\ calls'[s].ret = ReadResult(calls'[s].op, store, calls'[s].arg)
      ]_vars

====
